---- MODULE Spec2Model ----
(***************************************************************************)
(* The conversion ledger of the BIDSifier: the raw tree, the derived (BIDS) *)
(* tree, the signature index and the persisted conversion table, with the  *)
(* operations of bidsify_conversion_table.py (scan, load, reconcile,       *)
(* merge) and of bidsify_pipeline.py (the execution pass).                 *)
(*                                                                         *)
(* A raw file is identified by its number: the number stands for the key   *)
(* "raw_path/raw_name", and the order of the numbers is the order of the   *)
(* scanner's sort key.  Timestamps (time_stamp, the timestamps inside      *)
(* status_history and the value of last_processed) are not modelled.       *)
(***************************************************************************)
EXTENDS Integers, Sequences, FiniteSets, TLC

\* ---------------------------------------------------------------- bounds
NumFiles == 2          \* raw files that can exist
MaxEnv == 1            \* changes the environment (filesystem, human edits) makes
MaxHistory == 2        \* longest status_history a row may reach
MaxAttempts == 1       \* largest attempt_count a row may reach

Files == 1..NumFiles

\* Status (bidsify_constants.py: CONVERSION_TABLE_FIELDS['status'], plus error)
Statuses == {"check", "run", "processed", "skip", "missing", "error"}

\* A row's (bids_path, bids_name) is the target of its raw file: target f is
\* the path bids_path_from_rawname resolves for raw file f.
Targets == Files
\* A file in the derived tree: the exact bids_name of a target, or another
\* file with the same base name and a different extension (a sidecar).
Kinds == {"exact", "sidecar"}
Outputs == Targets \X Kinds

\* The configuration file (fixed over a run of the system) and the --reindex
\* flag (given anew to every invocation).
\*   Tasks: the files whose resolved task is listed in config['Tasks'];
\*   Mapped: the files bids_path_from_rawname resolves (parseable, and in
\*          the participant mapping when one is supplied);
\*   Renamed: whether the participant mapping gives the participants new
\*          identifiers (the mapping then turns the order of the identifiers
\*          around), or leaves every identifier as it is;
\*   Overwrite_conversion, overwrite, force_scan: the flags of the same name.
TaskLists == {Files, Files \ {NumFiles}}
Pmaps == {Files, Files \ {1}}
ConfigFiles == [Tasks : TaskLists, Mapped : Pmaps, Renamed : BOOLEAN,
                Overwrite_conversion : BOOLEAN, overwrite : BOOLEAN]
Invocation(c, force_scan) ==
    [Tasks |-> c.Tasks, Mapped |-> c.Mapped, Renamed |-> c.Renamed,
     Overwrite_conversion |-> c.Overwrite_conversion,
     overwrite |-> c.overwrite, force_scan |-> force_scan]

VARIABLES
    raw,        \* the raw files on disk
    sig,        \* sig[f]: the (mtime, size) signature of raw file f
    out,        \* the files of the derived tree (a subset of Outputs)
    bidsdir,    \* the names of the sub-* directories of the BIDS root
    index,      \* the signature index file: index[f] = 0 when f has no entry
    ledger,     \* the conversion file: [exists, rows]
    corrupt,    \* the conversion file is zero-byte (rows is then empty)
    pc,         \* "idle", or "run" while an execution pass is looping
    df,         \* the executor's in-memory table
    todo,       \* the row numbers the pass still has to process
    config,     \* the configuration file
    op,         \* the last operation that acted
    env,        \* environment changes made so far
    mExisting,  \* merge study: the existing table
    mNew,       \* merge study: the scanned candidates
    mResult,    \* merge study: the merged table; scan study: the candidates
    sTask,      \* status study: the resolved task of a file
    sTasks,     \* status study: config['Tasks']
    sChanged,   \* status study: whether the file's signature changed
    sStatus,    \* status study: the status the scanner assigned
    lLocation,  \* where config['Conversion_file'] points: "logdir" (a name,
                \* or a path inside the log directory) or "elsewhere"
    lLogdir,    \* load study: the other .tsv files of the log directory, in
                \* the order of their ctime
    lFile,      \* load study: the file load_conversion_table returned
    iKind,      \* what the index file holds: "table" (no file, or the entries
                \* of index), "unparsable", "header_only", "foreign"
    pName,      \* parser study: the basename of a raw file, in pieces
    pResult,    \* parser study: what extract_info_from_filename returned
    rPmap,      \* resolver study: the participant mapping table
    rSubject,   \* resolver study: the participant parsed from the file name
    rSession,   \* resolver study: the session directory of the file
    rResult,    \* resolver study: the identifiers resolved, if any
    xTable,    \* executor study: participant_to, session_to and datatype of the rows
    xSubjects, \* executor study: the subject of the target each row was written to
    bOriginal, \* report study: the report file before consolidation: [form, table]
    bReport,   \* report study: the report file now
    bRaised,   \* report study: whether the last consolidation raised
    jStatus,   \* job study: JOBS[job_id]["status"], or "none" before create_job
    jProc,     \* job study: whether JOBS[job_id] holds the process handle "proc"
    jAborting, \* job study: JOBS[job_id]["aborting"]
    jLogs,     \* job study: JOBS[job_id]["logs"], the lines only
    jCode,     \* job study: JOBS[job_id]["returncode"] (-1: None)
    jStops,    \* job study: the stop requests stop_job has accepted
    tPc,       \* job study: where the _background task of the job is
    tProc,     \* job study: the subprocess: "none", "alive" or "exited"
    tExit,     \* job study: the exit code of the subprocess (0, or 1 for any other)
    kPc,       \* job study: where the _ensure_terminate task is
    wPc,       \* job study: where the websocket_logs handler of the subscriber is
    wIdx,      \* job study: the backlog entries the handler has iterated over
    wQueue,    \* job study: the content of the subscriber queue q
    wReceived  \* job study: the messages sent to the subscriber so far

vars == <<raw, sig, out, bidsdir, index, ledger, corrupt, pc, df, todo, config, op, env,
          mExisting, mNew, mResult, sTask, sTasks, sChanged, sStatus,
          lLocation, lLogdir, lFile, iKind, pName, pResult,
          rPmap, rSubject, rSession, rResult,
          xTable, xSubjects,
          bOriginal, bReport, bRaised,
          jStatus, jProc, jAborting, jLogs, jCode, jStops, tPc, tProc, tExit,
          kPc, wPc, wIdx, wQueue, wReceived>>
fsvars == <<raw, sig, out>>
runvars == <<pc, df, todo>>
svars == <<sTask, sTasks, sChanged, sStatus>>
lvars == <<lLocation, lLogdir, lFile>>
pvars == <<pName, pResult>>
rvars == <<rPmap, rSubject, rSession, rResult>>
xvars == <<xTable, xSubjects>>
bvars == <<bOriginal, bReport, bRaised>>
jvars == <<jStatus, jProc, jAborting, jLogs, jCode, jStops, tPc, tProc, tExit,
          kPc, wPc, wIdx, wQueue, wReceived>>
mvars == <<mExisting, mNew, mResult, svars, lvars, iKind, pvars, rvars,
          xvars, bvars, jvars>>

\* ------------------------------------------------------------ rows
\* The candidate row process_file_entry returns (lines 251-273).  changes is
\* a history field: the number of status changes operations made to the row.
NewRow(f, st) ==
    [raw_name |-> f, status |-> st, bids_name |-> f,
     last_processed |-> "None", attempt_count |-> 0,
     status_history |-> <<>>, changes |-> 0]

Key(row) == row.raw_name
Keys(table) == {Key(table[i]) : i \in DOMAIN table}
\* The name of the participant directory of raw file f in the raw tree.
ParticipantOf(f) == f
\* The name of the subject directory of raw file f in the derived tree
\* (participant_to): the parsed participant, or its new identifier when the
\* participant mapping renames (bids_path_from_rawname, lines 156-174).
DerivedDir(f, cfg) ==
    IF cfg.Renamed THEN NumFiles + 1 - ParticipantOf(f) ELSE ParticipantOf(f)

\* DataFrame.to_csv: None and NaN are written as the empty field.
ToCsvRow(row) ==
    [row EXCEPT !.last_processed = IF @ \in {"None", "NaN"} THEN "" ELSE @]
ToCsv(table) == [i \in DOMAIN table |-> ToCsvRow(table[i])]
\* pd.read_csv(dtype=str): the empty field is read as NaN.
ReadCsvRow(row) ==
    [row EXCEPT !.last_processed = IF @ = "" THEN "NaN" ELSE @]
ReadCsv(rows) == [i \in DOMAIN rows |-> ReadCsvRow(rows[i])]

\* ------------------------------------------------------------ reconciliation
\* Variant of bids_output_exists without the any-extension fallback.
bids_output_exists_exact(t) ==
    <<t, "exact">> \in out

\* _bids_output_exists (lines 86-98): the exact file, or any file matching
\* "<base>.*".
bids_output_exists(t) ==
    \/ <<t, "exact">> \in out
    \/ \E k \in Kinds : <<t, k>> \in out

\* _update_status_with_history (lines 112-132) on one row.
update_status_with_history(row, new_status) ==
    IF row.status # new_status
    THEN [row EXCEPT !.status = new_status,
                     !.status_history = Append(@, <<row.status, new_status>>),
                     !.changes = @ + 1]
    ELSE row

\* Variant of RefreshRow that tests skip/check before the raw file.
RefreshRowStickyFirst(row) ==
    IF row.status \in {"skip", "check"}
    THEN row
    ELSE IF row.raw_name \notin raw
    THEN update_status_with_history(row, "missing")
    ELSE IF bids_output_exists(row.bids_name)
    THEN update_status_with_history(row, "processed")
    ELSE IF row.status = "processed"
    THEN update_status_with_history(row, "run")
    ELSE row

\* Variant of RefreshRow that never reverts processed to run.
RefreshRowNoRevert(row) ==
    IF row.raw_name \notin raw
    THEN update_status_with_history(row, "missing")
    ELSE IF row.status \in {"skip", "check"}
    THEN row
    ELSE IF bids_output_exists(row.bids_name)
    THEN update_status_with_history(row, "processed")
    ELSE row

\* Variant of RefreshRow that also clears the attempt counter of a row it
\* reverts to run.
RefreshRowResetsAttempts(row) ==
    IF row.raw_name \notin raw
    THEN update_status_with_history(row, "missing")
    ELSE IF row.status \in {"skip", "check"}
    THEN row
    ELSE IF bids_output_exists(row.bids_name)
    THEN update_status_with_history(row, "processed")
    ELSE IF row.status = "processed"
    THEN [update_status_with_history(row, "run") EXCEPT !.attempt_count = 0]
    ELSE row

\* The body of the loop of _refresh_processed_status (lines 154-167).
RefreshRow(row) ==
    IF row.raw_name \notin raw
    THEN update_status_with_history(row, "missing")
    ELSE IF row.status \in {"skip", "check"}
    THEN row
    ELSE IF bids_output_exists(row.bids_name)
    THEN update_status_with_history(row, "processed")
    ELSE IF row.status = "processed"
    THEN update_status_with_history(row, "run")
    ELSE row

\* _refresh_processed_status (lines 148-168).
refresh_processed_status(table) ==
    [i \in DOMAIN table |-> RefreshRow(table[i])]

\* ------------------------------------------------------------ scan
RECURSIVE SortedFiles(_)
\* results.sort(key=(participant_from, session_from, acquisition, task,
\* raw_name)) (line 315): the files in the order of their sort key.
SortedFiles(S) ==
    IF S = {} THEN <<>>
    ELSE LET m == CHOOSE x \in S : \A y \in S : x <= y
         IN <<m>> \o SortedFiles(S \ {m})

\* processed_files (lines 186-192).
ProcessedFiles(existing) ==
    {Key(existing[i]) : i \in {j \in DOMAIN existing :
                                 existing[j].status \in {"processed", "skip"}}}

\* Variant of Changed in which a file without an entry counts as unchanged.
ChangedOnlyIfIndexed(f, idx, force_scan) ==
    IF force_scan THEN TRUE ELSE idx[f] # 0 /\ idx[f] # sig[f]

\* changed (lines 288-290): previous_index is empty under force_scan.
Changed(f, idx, force_scan) ==
    IF force_scan THEN TRUE ELSE idx[f] # sig[f]

OPM_EXEPCIONS_PATTERNS ==
    {"HPIbefore", "HPIafter", "HPImiddle", "HPIpre", "HPIpost"}

\* The resolved task of raw file f, and the tasks config['Tasks'] lists.
TaskOf(f) == "Task" \o ToString(f)
ConfiguredTasks(cfg) == {TaskOf(g) : g \in cfg.Tasks}

\* The status process_file_entry assigns to a file of the given task (lines
\* 244-249), tasks being config['Tasks'] + OPM_EXEPCIONS_PATTERNS (line 181).
StatusOfTask(task, configured, changed) ==
    LET tasks == configured \cup OPM_EXEPCIONS_PATTERNS
        status == IF task \notin tasks \cup {"Noise"} THEN "check" ELSE "run"
    IN IF changed /\ status = "processed" THEN "run" ELSE status

\* The status process_file_entry assigns to raw file f.
InitialStatus(f, changed, cfg) ==
    StatusOfTask(TaskOf(f), ConfiguredTasks(cfg), changed)

\* process_file_entry (lines 208-273): the set holding the candidate, empty
\* when the file is short-circuited or cannot be resolved.
process_file_entry(f, changed, cfg, processed_files) ==
    IF f \in processed_files /\ ~changed /\ ParticipantOf(f) \in bidsdir
    THEN {}
    ELSE IF f \notin cfg.Mapped
    THEN {}
    ELSE {NewRow(f, InitialStatus(f, changed, cfg))}

\* What the index file can hold: "table" is no file at all or a table with the
\* entries of index; "unparsable" a file pd.read_csv rejects (zero-byte,
\* binary); "header_only" a parsable file without rows; "foreign" a parsable
\* file with rows and without the raw_path and raw_name columns.
IndexKinds == {"table", "unparsable", "header_only", "foreign"}

EmptyIndex == [f \in Files |-> 0]

\* _load_index (lines 59-71): the map read, or the exception that leaves the
\* function.  Only pd.read_csv is inside the try (lines 62-65); the loop that
\* reads row['raw_path'] and row['raw_name'] (lines 67-69) is not.
load_index(kind, idx) ==
    CASE kind = "table" -> [raised |-> FALSE, index |-> idx]
      [] kind = "unparsable" -> [raised |-> FALSE, index |-> EmptyIndex]
      [] kind = "header_only" -> [raised |-> FALSE, index |-> EmptyIndex]
      [] kind = "foreign" -> [raised |-> TRUE, index |-> EmptyIndex]

\* Variant of scan_candidates in which one file that cannot be resolved makes
\* the scan return nothing.
scan_candidates_aborting(cfg, existing, idx, force_scan) ==
    LET previous_index == IF force_scan THEN EmptyIndex
                          ELSE load_index(iKind, idx).index
    IN IF raw \ cfg.Mapped # {} THEN {}
       ELSE UNION {process_file_entry(f, Changed(f, previous_index, force_scan),
                                      cfg, ProcessedFiles(existing)) : f \in raw}

\* The results the workers return (lines 205, 299-313): one candidate for each
\* enumerated file whose worker returned one; a worker that returns None or
\* raises contributes nothing.
scan_candidates(cfg, existing, idx, force_scan) ==
    LET previous_index == IF force_scan THEN EmptyIndex
                          ELSE load_index(iKind, idx).index
    IN UNION {process_file_entry(f, Changed(f, previous_index, force_scan),
                                 cfg, ProcessedFiles(existing)) : f \in raw}

\* generate_new_conversion_table (lines 171-321): the sorted candidates and
\* the index file after the scan (rewritten only when a file was enumerated).
generate_new_conversion_table(cfg, existing, idx, force_scan) ==
    LET cands == scan_candidates(cfg, existing, idx, force_scan)
        order == SortedFiles({Key(r) : r \in cands})
        results == [i \in DOMAIN order |->
                      CHOOSE r \in cands : Key(r) = order[i]]
        newidx == IF raw = {} THEN idx
                  ELSE [f \in Files |-> IF f \in raw THEN sig[f] ELSE 0]
    IN [results |-> results, index |-> newidx]

\* The orders in which the workers of the pool can complete (as_completed,
\* line 305): every arrangement of the results.
CompletionOrders(S) ==
    {q \in [1..Cardinality(S) -> S] :
       \A i, j \in 1..Cardinality(S) : i # j => q[i] # q[j]}

\* The sort key of a candidate (line 315): participant, session, acquisition
\* and task, then the file name; the number of a file stands for its key.
SortKey(row) == Key(row)

RECURSIVE InsertByKey(_, _)
\* One insertion of a stable sort: the row goes behind every row whose key is
\* not greater.
InsertByKey(sorted, row) ==
    IF sorted = <<>> \/ SortKey(sorted[Len(sorted)]) <= SortKey(row)
    THEN Append(sorted, row)
    ELSE Append(InsertByKey(SubSeq(sorted, 1, Len(sorted) - 1), row),
                sorted[Len(sorted)])

\* Variant of SortResults that leaves the results in completion order.
Unsorted(q) == q

RECURSIVE SortResults(_)
\* results.sort(key=...) (line 315), a stable sort, on the results in the
\* order in which they were appended.
SortResults(q) ==
    IF q = <<>> THEN <<>>
    ELSE InsertByKey(SortResults(SubSeq(q, 1, Len(q) - 1)), q[Len(q)])

\* ------------------------------------------------------------ load
\* load_conversion_table (lines 324-397) on ledger file L and index idx: the
\* table returned, and the ledger and index files afterwards.
load_conversion_table(L, idx, cfg, refresh_status) ==
    IF L.exists /\ ~cfg.Overwrite_conversion
    THEN LET t == ReadCsv(L.rows)
         IN [table |-> IF refresh_status THEN refresh_processed_status(t) ELSE t,
             ledger |-> L, index |-> idx]
    ELSE LET g == generate_new_conversion_table(cfg, <<>>, idx, FALSE)
             written == [exists |-> TRUE, rows |-> ToCsv(g.results)]
             t == ReadCsv(written.rows)
         IN [table |-> IF refresh_status THEN refresh_processed_status(t) ELSE t,
             ledger |-> written, index |-> g.index]

\* load_conversion_table on a zero-byte conversion file: the branch of the
\* existing file is entered (line 344), nothing is read (lines 346, 353-354),
\* and the function ends without a return statement: the caller gets None.
LoadFails(cfg) == corrupt /\ ~cfg.Overwrite_conversion

\* ------------------------------------------------------------ merge
\* Variant of Coerce that leaves the candidate's status as it is.
CoerceNothing(status) == status

\* The coercion of appended rows (lines 435-436).
Coerce(status) ==
    IF status \in {"processed", "skip"} THEN "run" ELSE status

\* Variant of Merge that appends every candidate, matched or not.
MergeAppendAll(existing, new) ==
    existing \o [i \in DOMAIN new |-> [new[i] EXCEPT !.status = Coerce(@)]]

\* Variant of Merge that only matches the keys of processed and skip rows.
MergeMatchesDoneOnly(existing, new) ==
    LET diff_rows == SelectSeq(new, LAMBDA r : Key(r) \notin ProcessedFiles(existing))
    IN existing \o [i \in DOMAIN diff_rows |->
                      [diff_rows[i] EXCEPT !.status = Coerce(@)]]

\* Variant of Merge that also gives a matched row its candidate's status.
MergeUpdatesMatched(existing, new) ==
    LET existing_keys == Keys(existing)
        diff_rows == SelectSeq(new, LAMBDA r : Key(r) \notin existing_keys)
        cand(k) == CHOOSE r \in {new[j] : j \in DOMAIN new} : Key(r) = k
    IN [i \in DOMAIN existing |->
          IF Key(existing[i]) \in Keys(new)
          THEN [existing[i] EXCEPT !.status = cand(Key(existing[i])).status]
          ELSE existing[i]]
       \o [i \in DOMAIN diff_rows |-> [diff_rows[i] EXCEPT !.status = Coerce(@)]]

\* The merge of update_conversion_table (lines 412-442).
Merge(existing, new) ==
    LET existing_keys == Keys(existing)
        diff_rows == SelectSeq(new, LAMBDA r : Key(r) \notin existing_keys)
        diff == [i \in DOMAIN diff_rows |->
                   [diff_rows[i] EXCEPT !.status = Coerce(@)]]
    IN IF new = <<>> THEN existing
       ELSE IF diff_rows = <<>> THEN existing
       ELSE existing \o diff

\* Variant of update_conversion_table that returns the rescanned table when
\* the scan found files.
update_conversion_table_rescanned(L, idx, cfg) ==
    LET ld == load_conversion_table(L, idx, cfg, TRUE)
        g == generate_new_conversion_table(cfg, ld.table, ld.index,
                                           cfg.force_scan)
    IN [table |-> IF g.results = <<>> THEN ld.table ELSE g.results,
        ledger |-> ld.ledger, index |-> g.index]

\* update_conversion_table (lines 400-442): the table returned, and the
\* ledger and index files afterwards (the ledger is written by the caller).
update_conversion_table(L, idx, cfg) ==
    LET ld == load_conversion_table(L, idx, cfg, TRUE)
        g == generate_new_conversion_table(cfg, ld.table, ld.index,
                                           cfg.force_scan)
    IN [table |-> Merge(ld.table, g.results),
        ledger |-> ld.ledger, index |-> g.index]

\* ------------------------------------------------------------ operations
HistoryFits(table) ==
    \A i \in DOMAIN table : Len(table[i].status_history) <= MaxHistory

\* No ledger and no index yet; the derived tree may hold the output of an
\* earlier, untracked conversion.
Init ==
    /\ raw \in SUBSET Files
    /\ sig = [f \in Files |-> 1]
    /\ out \in SUBSET {<<f, "exact">> : f \in Files}
    /\ bidsdir = {}
    /\ index = [f \in Files |-> 0]
    /\ ledger = [exists |-> FALSE, rows |-> <<>>]
    /\ corrupt = FALSE
    /\ pc = "idle"
    /\ df = <<>>
    /\ todo = <<>>
    /\ config \in ConfigFiles
    /\ op = "init"
    /\ env = 0
    /\ mExisting = <<>>
    /\ mNew = <<>>
    /\ mResult = <<>>
    /\ sTask = ""
    /\ sTasks = {}
    /\ sChanged = FALSE
    /\ sStatus = ""
    /\ lLocation = "logdir"
    /\ lLogdir = <<>>
    /\ lFile = ""
    /\ iKind = "table"
    /\ pName = <<>>
    /\ pResult = [raised |-> FALSE]
    /\ rPmap = [loaded |-> FALSE, rows |-> <<>>]
    /\ rSubject = ""
    /\ rSession = ""
    /\ rResult = [ok |-> FALSE]
    /\ jStatus = "none"
    /\ jProc = FALSE
    /\ jAborting = FALSE
    /\ jLogs = <<>>
    /\ jCode = -1
    /\ jStops = 0
    /\ tPc = "none"
    /\ tProc = "none"
    /\ tExit = 0
    /\ kPc = "none"
    /\ wPc = "none"
    /\ wIdx = 0
    /\ wQueue = <<>>
    /\ wReceived = <<>>
    /\ bOriginal = [form |-> "dict", table |-> <<>>]
    /\ bReport = [form |-> "dict", table |-> <<>>]
    /\ bRaised = FALSE
    /\ xTable = <<>>
    /\ xSubjects = <<>>

\* main --analyse (bidsify_pipeline.py lines 556-559): update the table and
\* write it to the conversion file.
Analyse ==
    /\ pc = "idle"
    /\ ~LoadFails(config)
    /\ \E force_scan \in BOOLEAN :
         LET r == update_conversion_table(ledger, index,
                                          Invocation(config, force_scan))
         IN /\ HistoryFits(r.table)
            /\ ledger' = [exists |-> TRUE, rows |-> ToCsv(r.table)]
            /\ index' = r.index
    /\ corrupt' = FALSE
    /\ op' = "analyse"
    /\ UNCHANGED <<fsvars, bidsdir, runvars, config, env, mvars>>

\* df.where(pd.notnull(df) & (df != ''), None) (bidsify, line 52).
WhereNotNull(table) ==
    [i \in DOMAIN table |->
       [table[i] EXCEPT !.last_processed = IF @ \in {"NaN", ""} THEN "None" ELSE @]]

\* Variant of ProcessMask that also leaves error rows out.
ProcessMaskNoRetry(table, cfg) ==
    SelectSeq([i \in DOMAIN table |-> i],
              LAMBDA i : \/ cfg.overwrite
                         \/ table[i].status \notin
                              {"processed", "skip", "missing", "error"})

\* process_mask (bidsify, lines 89-92): the row numbers, in table order.
ProcessMask(table, cfg) ==
    SelectSeq([i \in DOMAIN table |-> i],
              LAMBDA i : \/ cfg.overwrite
                         \/ table[i].status \notin {"processed", "skip", "missing"})

\* Variant of StartPass without the test for check rows (lines 83-87).
StartPassNoGate(table, L, idx, cfg) ==
    LET d == WhereNotNull(table)
        mask == ProcessMask(d, cfg)
    IN /\ index' = idx
       /\ IF d = <<>>
          THEN /\ ledger' = L
               /\ UNCHANGED <<bidsdir, pc, df, todo>>
          ELSE /\ bidsdir' = bidsdir \cup {DerivedDir(Key(d[i]), cfg) : i \in DOMAIN d}
               /\ IF ~cfg.overwrite /\ mask = <<>>
                  THEN /\ ledger' = L
                       /\ UNCHANGED <<pc, df, todo>>
                  ELSE /\ ledger' = L
                       /\ pc' = "run"
                       /\ df' = d
                       /\ todo' = mask

\* bidsify up to its loop (lines 43-110), given the table it works on and the
\* ledger and index files as loading left them.
StartPass(table, L, idx, cfg) ==
    LET d == WhereNotNull(table)
        mask == ProcessMask(d, cfg)
    IN /\ index' = idx
       /\ IF d = <<>>
          THEN /\ ledger' = L
               /\ UNCHANGED <<bidsdir, pc, df, todo>>
          ELSE /\ bidsdir' = bidsdir \cup {DerivedDir(Key(d[i]), cfg) : i \in DOMAIN d}
               /\ IF \E i \in DOMAIN d : d[i].status = "check"
                  THEN /\ ledger' = [exists |-> TRUE, rows |-> ToCsv(d)]
                       /\ UNCHANGED <<pc, df, todo>>
                  ELSE IF ~cfg.overwrite /\ mask = <<>>
                  THEN /\ ledger' = L
                       /\ UNCHANGED <<pc, df, todo>>
                  ELSE /\ ledger' = L
                       /\ pc' = "run"
                       /\ df' = d
                       /\ todo' = mask

\* main --run (bidsify_pipeline.py lines 575-580): load without refresh, then
\* bidsify on the loaded table.
BeginRun ==
    /\ pc = "idle"
    /\ ~LoadFails(config)
    /\ LET cfg == Invocation(config, FALSE)
           ld == load_conversion_table(ledger, index, cfg, FALSE)
       IN StartPass(ld.table, ld.ledger, ld.index, cfg)
    /\ corrupt' = FALSE
    /\ op' = "begin"
    /\ UNCHANGED <<fsvars, config, env, mvars>>

\* bidsify called without a table (lines 43-44): update_conversion_table first.
BeginBidsify ==
    /\ pc = "idle"
    /\ ~LoadFails(config)
    /\ \E force_scan \in BOOLEAN :
         LET cfg == Invocation(config, force_scan)
             r == update_conversion_table(ledger, index, cfg)
         IN /\ HistoryFits(r.table)
            /\ StartPass(r.table, r.ledger, r.index, cfg)
    /\ corrupt' = FALSE
    /\ op' = "bidsify"
    /\ UNCHANGED <<fsvars, config, env, mvars>>

\* _record_processing_success (lines 135-145) on one row.
record_processing_success(row) ==
    [row EXCEPT !.last_processed = "ts", !.attempt_count = @ + 1]

\* The row after one iteration of the executor's loop (lines 121-221):
\*   "written":   the conversion wrote the derived file (line 210);
\*   "swallowed": the write and its fallback failed inside the inner try
\*                (lines 193-199), and line 210 is reached all the same;
\*   "raised":    an exception reached the outer handler (lines 215-217).
\* The status is assigned directly (lines 210, 217); lines 220-221 rewrite the
\* target to the path the executor used.
ExecutedRow(row, outcome) ==
    LET st == IF outcome = "raised" THEN "error" ELSE "processed"
        r1 == [row EXCEPT !.status = st,
                          !.changes = IF row.status # st THEN @ + 1 ELSE @]
        r2 == IF outcome = "raised" THEN r1 ELSE record_processing_success(r1)
    IN [r2 EXCEPT !.bids_name = Key(row)]

\* The name under which an iteration of the loop is recorded in op.
ExecOp(outcome) ==
    IF outcome = "written" THEN "exec" ELSE "exec_" \o outcome

\* One iteration of the executor's loop, the write of the table included
\* (line 222).  When bids_path_from_rawname returns None (raw file absent or
\* not resolvable) the handler sets error in memory, and dirname(None) at line
\* 220 then raises outside the try: the pass ends with nothing written.
ExecRow ==
    /\ pc = "run"
    /\ todo # <<>>
    /\ LET i == Head(todo)
           f == Key(df[i])
       IN IF f \notin raw \/ f \notin config.Mapped
          THEN /\ pc' = "idle"
               /\ df' = <<>>
               /\ todo' = <<>>
               /\ op' = "crash"
               /\ UNCHANGED <<out, ledger>>
          ELSE \E outcome \in {"written", "swallowed", "raised"} :
               /\ outcome # "raised" => df[i].attempt_count < MaxAttempts
               /\ LET d == [df EXCEPT ![i] = ExecutedRow(df[i], outcome)]
                  IN /\ ledger' = [exists |-> TRUE, rows |-> ToCsv(d)]
                     /\ df' = IF Tail(todo) = <<>> THEN <<>> ELSE d
               /\ out' = IF outcome = "written"
                         THEN out \cup {<<f, "exact">>}
                         ELSE out
               /\ todo' = Tail(todo)
               /\ pc' = IF Tail(todo) = <<>> THEN "idle" ELSE "run"
               /\ op' = ExecOp(outcome)
    /\ UNCHANGED <<raw, sig, bidsdir, index, corrupt, config, env, mvars>>

\* ------------------------------------------------------------ environment
AddRaw ==
    /\ env < MaxEnv
    /\ \E f \in Files \ raw : raw' = raw \cup {f}
    /\ env' = env + 1
    /\ op' = "env"
    /\ UNCHANGED <<sig, out, bidsdir, index, ledger, corrupt, runvars,
                   config, mvars>>

RemoveRaw ==
    /\ env < MaxEnv
    /\ \E f \in raw : raw' = raw \ {f}
    /\ env' = env + 1
    /\ op' = "env"
    /\ UNCHANGED <<sig, out, bidsdir, index, ledger, corrupt, runvars,
                   config, mvars>>

TouchRaw ==
    /\ env < MaxEnv
    /\ \E f \in raw : sig' = [sig EXCEPT ![f] = 3 - @]
    /\ env' = env + 1
    /\ op' = "env"
    /\ UNCHANGED <<raw, out, bidsdir, index, ledger, corrupt, runvars,
                   config, mvars>>

AddOutput ==
    /\ env < MaxEnv
    /\ \E o \in Outputs \ out : out' = out \cup {o}
    /\ env' = env + 1
    /\ op' = "env"
    /\ UNCHANGED <<raw, sig, bidsdir, index, ledger, corrupt, runvars,
                   config, mvars>>

RemoveOutput ==
    /\ env < MaxEnv
    /\ \E o \in out : out' = out \ {o}
    /\ env' = env + 1
    /\ op' = "env"
    /\ UNCHANGED <<raw, sig, bidsdir, index, ledger, corrupt, runvars,
                   config, mvars>>

\* A human edits the status column of the conversion file: skip to have a
\* file ignored, run to have it converted.
EditStatus ==
    /\ env < MaxEnv
    /\ pc = "idle"
    /\ ledger.exists
    /\ ~corrupt
    /\ \E i \in DOMAIN ledger.rows, s \in {"skip", "run"} :
         /\ s # ledger.rows[i].status
         /\ ledger' = [ledger EXCEPT !.rows[i].status = s]
    /\ env' = env + 1
    /\ op' = "edit"
    /\ UNCHANGED <<fsvars, bidsdir, index, corrupt, runvars, config, mvars>>

Next ==
    \/ Analyse
    \/ BeginRun
    \/ BeginBidsify
    \/ ExecRow
    \/ AddRaw
    \/ RemoveRaw
    \/ TouchRaw
    \/ AddOutput
    \/ RemoveOutput
    \/ EditStatus

Spec == Init /\ [][Next]_vars

\* ------------------------------------------------------------ crash study
\* The process dies (or the write fails) while df.to_csv (bidsify, line 222)
\* writes the table of the row in flight: to_csv has opened the conversion
\* file for writing, which empties it, and nothing has reached the disk.  The
\* conversion of the row has run: its derived file may have been written.
CrashInFlush ==
    /\ env < MaxEnv
    /\ pc = "run"
    /\ todo # <<>>
    /\ LET f == Key(df[Head(todo)])
       IN /\ f \in raw
          /\ f \in config.Mapped
          /\ \E written \in BOOLEAN :
               out' = IF written THEN out \cup {<<f, "exact">>} ELSE out
    /\ ledger' = [exists |-> TRUE, rows |-> <<>>]
    /\ corrupt' = TRUE
    /\ pc' = "idle"
    /\ df' = <<>>
    /\ todo' = <<>>
    /\ env' = env + 1
    /\ op' = "flush_crash"
    /\ UNCHANGED <<raw, sig, bidsdir, index, config, mvars>>

\* An invocation (--analyse, --run, or bidsify without a table) on a zero-byte
\* conversion file: load_conversion_table returns None, and the caller's
\* unpacking of the result (bidsify_conversion_table.py line 404,
\* bidsify_pipeline.py line 579) raises TypeError.
LoadCrash ==
    /\ pc = "idle"
    /\ LoadFails(config)
    /\ op' = "load_crash"
    /\ UNCHANGED <<fsvars, bidsdir, index, ledger, corrupt, runvars, config,
                   env, mvars>>

NextCrash ==
    \/ Next
    \/ CrashInFlush
    \/ LoadCrash

SpecCrash == Init /\ [][NextCrash]_vars

\* ------------------------------------------------------------ return study
\* A raw file that the conversion file records as missing is put back in the
\* raw tree (_refresh_processed_status lines 155-157 test os.path.exists of
\* the row's raw file at every reconciliation).
RestoreRaw ==
    /\ pc = "idle"
    /\ ledger.exists
    /\ \E i \in DOMAIN ledger.rows :
         /\ ledger.rows[i].status = "missing"
         /\ Key(ledger.rows[i]) \notin raw
         /\ raw' = raw \cup {Key(ledger.rows[i])}
    /\ op' = "restore"
    /\ UNCHANGED <<sig, out, bidsdir, index, ledger, corrupt, runvars,
                   config, env, mvars>>

NextReturn ==
    \/ Next
    \/ RestoreRaw

SpecReturn == Init /\ [][NextReturn]_vars

\* ------------------------------------------------------------ merge study
\* The merge step on its own: any duplicate-free existing table, and any
\* sorted list of candidates with distinct keys, whatever status a candidate
\* carries (the scanner's run or check, or an inherited processed or skip).
CandStatuses == {"run", "check", "processed", "skip"}

Perms(n) ==
    {o \in [1..n -> Files] : \A i, j \in 1..n : i # j => o[i] # o[j]}

ExistingTables ==
    UNION {{[i \in 1..n |-> ReadCsvRow(ToCsvRow(NewRow(o[i], st[i])))] :
              o \in Perms(n), st \in [1..n -> Statuses]} : n \in 0..NumFiles}

CandidateLists ==
    UNION {{[i \in DOMAIN SortedFiles(S) |->
               NewRow(SortedFiles(S)[i], st[SortedFiles(S)[i]])] :
              st \in [S -> CandStatuses]} : S \in SUBSET Files}

InitMerge ==
    /\ raw = {}
    /\ sig = [f \in Files |-> 1]
    /\ out = {}
    /\ bidsdir = {}
    /\ index = [f \in Files |-> 0]
    /\ ledger = [exists |-> FALSE, rows |-> <<>>]
    /\ corrupt = FALSE
    /\ pc = "idle"
    /\ df = <<>>
    /\ todo = <<>>
    /\ config = [Tasks |-> Files, Mapped |-> Files, Renamed |-> FALSE,
                 Overwrite_conversion |-> FALSE, overwrite |-> FALSE]
    /\ op = "init"
    /\ env = 0
    /\ mExisting \in ExistingTables
    /\ mNew \in CandidateLists
    /\ mResult = <<>>
    /\ sTask = ""
    /\ sTasks = {}
    /\ sChanged = FALSE
    /\ sStatus = ""
    /\ lLocation = "logdir"
    /\ lLogdir = <<>>
    /\ lFile = ""
    /\ iKind = "table"
    /\ pName = <<>>
    /\ pResult = [raised |-> FALSE]
    /\ rPmap = [loaded |-> FALSE, rows |-> <<>>]
    /\ rSubject = ""
    /\ rSession = ""
    /\ rResult = [ok |-> FALSE]
    /\ jStatus = "none"
    /\ jProc = FALSE
    /\ jAborting = FALSE
    /\ jLogs = <<>>
    /\ jCode = -1
    /\ jStops = 0
    /\ tPc = "none"
    /\ tProc = "none"
    /\ tExit = 0
    /\ kPc = "none"
    /\ wPc = "none"
    /\ wIdx = 0
    /\ wQueue = <<>>
    /\ wReceived = <<>>
    /\ bOriginal = [form |-> "dict", table |-> <<>>]
    /\ bReport = [form |-> "dict", table |-> <<>>]
    /\ bRaised = FALSE
    /\ xTable = <<>>
    /\ xSubjects = <<>>

MergeStep ==
    /\ op = "init"
    /\ mResult' = Merge(mExisting, mNew)
    /\ op' = "merge"
    /\ UNCHANGED <<fsvars, bidsdir, index, ledger, corrupt, runvars, config, env,
                   mExisting, mNew, svars, lvars, iKind, pvars, rvars,
                   xvars,
                   bvars,
                   jvars>>

NextMerge == MergeStep

SpecMerge == InitMerge /\ [][NextMerge]_vars

\* ------------------------------------------------------------ scan study
\* One scan on its own: any raw tree, any signature index (no entry, the
\* current signature, another signature), any set of subject directories in
\* the derived tree, any duplicate-free existing table.
IndexFiles == [Files -> 0..2]

InitScan ==
    /\ raw \in SUBSET Files
    /\ sig = [f \in Files |-> 1]
    /\ out = {}
    /\ bidsdir \in SUBSET Files
    /\ index \in IndexFiles
    /\ iKind \in IndexKinds
    /\ iKind # "table" => index = EmptyIndex
    /\ pName = <<>>
    /\ pResult = [raised |-> FALSE]
    /\ rPmap = [loaded |-> FALSE, rows |-> <<>>]
    /\ rSubject = ""
    /\ rSession = ""
    /\ rResult = [ok |-> FALSE]
    /\ jStatus = "none"
    /\ jProc = FALSE
    /\ jAborting = FALSE
    /\ jLogs = <<>>
    /\ jCode = -1
    /\ jStops = 0
    /\ tPc = "none"
    /\ tProc = "none"
    /\ tExit = 0
    /\ kPc = "none"
    /\ wPc = "none"
    /\ wIdx = 0
    /\ wQueue = <<>>
    /\ wReceived = <<>>
    /\ bOriginal = [form |-> "dict", table |-> <<>>]
    /\ bReport = [form |-> "dict", table |-> <<>>]
    /\ bRaised = FALSE
    /\ xTable = <<>>
    /\ xSubjects = <<>>
    /\ ledger = [exists |-> FALSE, rows |-> <<>>]
    /\ corrupt = FALSE
    /\ pc = "idle"
    /\ df = <<>>
    /\ todo = <<>>
    /\ config \in {c \in ConfigFiles : ~c.Overwrite_conversion /\ ~c.overwrite}
    /\ op = "init"
    /\ env = 0
    /\ mExisting \in ExistingTables
    /\ mNew = <<>>
    /\ mResult = <<>>
    /\ sTask = ""
    /\ sTasks = {}
    /\ sChanged = FALSE
    /\ sStatus = ""
    /\ lLocation = "logdir"
    /\ lLogdir = <<>>
    /\ lFile = ""

\* One scan (generate_new_conversion_table): the previous index is read
\* unless the scan is forced, the workers complete in any order, the results
\* are sorted, and the index is rewritten when a file was enumerated.
ScanStep ==
    /\ op = "init"
    /\ \E force_scan \in BOOLEAN :
         LET cfg == Invocation(config, force_scan)
         IN IF ~force_scan /\ load_index(iKind, index).raised
            THEN /\ op' = "scan_raised"
                 /\ UNCHANGED <<mResult, index, iKind>>
            ELSE \E completion \in CompletionOrders(
                                      scan_candidates(cfg, mExisting, index,
                                                      force_scan)) :
                   /\ mResult' = SortResults(completion)
                   /\ index' = generate_new_conversion_table(
                                  cfg, mExisting, index, force_scan).index
                   /\ iKind' = IF raw = {} THEN iKind ELSE "table"
                   /\ op' = IF force_scan THEN "scan_forced" ELSE "scan"
    /\ UNCHANGED <<fsvars, bidsdir, ledger, corrupt, runvars, config, env,
                   mExisting, mNew, svars, lvars, pvars, rvars,
                   xvars,
                   bvars,
                   jvars>>

NextScan == ScanStep

SpecScan == InitScan /\ [][NextScan]_vars

\* ------------------------------------------------------------ load study
\* load_conversion_table on its own, wherever the conversion file is
\* configured and whatever .tsv files the log directory holds: the signature
\* index ("index") and a .tsv file of another tool ("other").
Last(q) == q[Len(q)]
Without(q, x) == SelectSeq(q, LAMBDA y : y # x)
LogDirs ==
    {<<>>, <<"index">>, <<"other">>, <<"index", "other">>, <<"other", "index">>}

\* The .tsv files of the log directory, oldest first, after the regeneration
\* (lines 365-377): the scan has rewritten the index when it enumerated a file
\* (lines 317-318), then the conversion file was written (line 369).
TsvAfterRegeneration(location, logdir) ==
    LET scanned == IF raw = {} THEN logdir
                   ELSE Append(Without(logdir, "index"), "index")
    IN IF location = "logdir" THEN Append(scanned, "conversion") ELSE scanned

\* The file load_conversion_table returns as the conversion file: the
\* configured file when it is read as it exists (line 352), else the .tsv file
\* of the log directory with the latest ctime (lines 373-387), and
\* FileNotFoundError when there is none (line 397).
loaded_file(L, cfg, location, logdir) ==
    IF L.exists /\ ~cfg.Overwrite_conversion
    THEN "conversion"
    ELSE LET tsv == TsvAfterRegeneration(location, logdir)
         IN IF tsv = <<>> THEN "raise" ELSE Last(tsv)

\* The signature index read as a conversion table (lines 383-384): a row for
\* each entry, with no status and no target.
IndexAsTable(idx) ==
    LET order == SortedFiles({f \in Files : idx[f] # 0})
    IN [i \in DOMAIN order |->
          [NewRow(order[i], "NaN") EXCEPT !.bids_name = 0,
                                          !.last_processed = "NaN"]]

InitLoad ==
    /\ raw \in SUBSET Files
    /\ sig = [f \in Files |-> 1]
    /\ out = {}
    /\ bidsdir = {}
    /\ lLogdir \in LogDirs
    /\ index \in {idx \in IndexFiles :
                     (\E f \in Files : idx[f] # 0) =>
                        \E i \in DOMAIN lLogdir : lLogdir[i] = "index"}
    /\ ledger \in {[exists |-> FALSE, rows |-> <<>>]}
                   \cup {[exists |-> TRUE, rows |-> ToCsv(t)] :
                            t \in {e \in ExistingTables :
                                     \A i \in DOMAIN e :
                                       e[i].status \in {"run", "processed"}}}
    /\ corrupt = FALSE
    /\ pc = "idle"
    /\ df = <<>>
    /\ todo = <<>>
    /\ config \in {c \in ConfigFiles :
                      c.Tasks = Files /\ c.Mapped = Files /\ ~c.Renamed
                        /\ ~c.overwrite}
    /\ op = "init"
    /\ env = 0
    /\ mExisting = <<>>
    /\ mNew = <<>>
    /\ mResult = <<>>
    /\ sTask = ""
    /\ sTasks = {}
    /\ sChanged = FALSE
    /\ sStatus = ""
    /\ lLocation \in {"logdir", "elsewhere"}
    /\ lFile = ""
    /\ iKind = "table"
    /\ pName = <<>>
    /\ pResult = [raised |-> FALSE]
    /\ rPmap = [loaded |-> FALSE, rows |-> <<>>]
    /\ rSubject = ""
    /\ rSession = ""
    /\ rResult = [ok |-> FALSE]
    /\ jStatus = "none"
    /\ jProc = FALSE
    /\ jAborting = FALSE
    /\ jLogs = <<>>
    /\ jCode = -1
    /\ jStops = 0
    /\ tPc = "none"
    /\ tProc = "none"
    /\ tExit = 0
    /\ kPc = "none"
    /\ wPc = "none"
    /\ wIdx = 0
    /\ wQueue = <<>>
    /\ wReceived = <<>>
    /\ bOriginal = [form |-> "dict", table |-> <<>>]
    /\ bReport = [form |-> "dict", table |-> <<>>]
    /\ bRaised = FALSE
    /\ xTable = <<>>
    /\ xSubjects = <<>>

\* load_conversion_table(config, refresh_status=False): mResult is the table
\* returned, lFile the file returned.
LoadStep ==
    /\ op = "init"
    /\ LET cfg == Invocation(config, FALSE)
           ld == load_conversion_table(ledger, index, cfg, FALSE)
           file == loaded_file(ledger, cfg, lLocation, lLogdir)
       IN /\ ledger' = ld.ledger
          /\ index' = ld.index
          /\ lFile' = file
          /\ mResult' = IF file = "conversion" THEN ld.table
                        ELSE IF file = "index" THEN IndexAsTable(ld.index)
                        ELSE <<>>
    /\ op' = "load"
    /\ UNCHANGED <<fsvars, bidsdir, corrupt, runvars, config, env,
                   mExisting, mNew, svars, lLocation, lLogdir, iKind, pvars,
                   rvars,
                   xvars,
                   bvars,
                   jvars>>

\* The caller writes the table to the file it was given (bidsify lines 86 and
\* 222, main line 559).  A conversion table written onto the index file has no
\* mtime and size columns: _load_index then finds no signature in it.
FlushStep ==
    /\ op = "load"
    /\ lFile # "raise"
    /\ IF lFile = "conversion"
       THEN /\ ledger' = [exists |-> TRUE, rows |-> ToCsv(mResult)]
            /\ index' = index
       ELSE IF lFile = "index"
       THEN /\ ledger' = ledger
            /\ index' = [f \in Files |-> 0]
       ELSE /\ ledger' = ledger
            /\ index' = index
    /\ op' = "flush"
    /\ UNCHANGED <<fsvars, bidsdir, corrupt, runvars, config, env, mvars>>

NextLoad ==
    \/ LoadStep
    \/ FlushStep

SpecLoad == InitLoad /\ [][NextLoad]_vars

\* ------------------------------------------------------------ status study
\* The status assignment on its own: any resolved task, any task list.
StudyTasks ==
    {TaskOf(f) : f \in Files}
      \cup {"Noise", "NoiseBefore", "NoiseAfter", "HPIbefore", "HPIpost"}
StudyTaskLists == SUBSET ({TaskOf(f) : f \in Files} \cup {"NoiseAfter"})

InitStatus ==
    /\ raw = {}
    /\ sig = [f \in Files |-> 1]
    /\ out = {}
    /\ bidsdir = {}
    /\ index = [f \in Files |-> 0]
    /\ ledger = [exists |-> FALSE, rows |-> <<>>]
    /\ corrupt = FALSE
    /\ pc = "idle"
    /\ df = <<>>
    /\ todo = <<>>
    /\ config = [Tasks |-> Files, Mapped |-> Files, Renamed |-> FALSE,
                 Overwrite_conversion |-> FALSE, overwrite |-> FALSE]
    /\ op = "init"
    /\ env = 0
    /\ mExisting = <<>>
    /\ mNew = <<>>
    /\ mResult = <<>>
    /\ sTask \in StudyTasks
    /\ sTasks \in StudyTaskLists
    /\ sChanged \in BOOLEAN
    /\ sStatus = ""
    /\ lLocation = "logdir"
    /\ lLogdir = <<>>
    /\ lFile = ""
    /\ iKind = "table"
    /\ pName = <<>>
    /\ pResult = [raised |-> FALSE]
    /\ rPmap = [loaded |-> FALSE, rows |-> <<>>]
    /\ rSubject = ""
    /\ rSession = ""
    /\ rResult = [ok |-> FALSE]
    /\ jStatus = "none"
    /\ jProc = FALSE
    /\ jAborting = FALSE
    /\ jLogs = <<>>
    /\ jCode = -1
    /\ jStops = 0
    /\ tPc = "none"
    /\ tProc = "none"
    /\ tExit = 0
    /\ kPc = "none"
    /\ wPc = "none"
    /\ wIdx = 0
    /\ wQueue = <<>>
    /\ wReceived = <<>>
    /\ bOriginal = [form |-> "dict", table |-> <<>>]
    /\ bReport = [form |-> "dict", table |-> <<>>]
    /\ bRaised = FALSE
    /\ xTable = <<>>
    /\ xSubjects = <<>>

StatusStep ==
    /\ op = "init"
    /\ sStatus' = StatusOfTask(sTask, sTasks, sChanged)
    /\ op' = "status"
    /\ UNCHANGED <<fsvars, bidsdir, index, ledger, corrupt, runvars, config, env,
                   mExisting, mNew, mResult, sTask, sTasks, sChanged, lvars, iKind,
                   pvars, rvars,
                   xvars,
                   bvars,
                   jvars>>

NextStatus == StatusStep

SpecStatus == InitStatus /\ [][NextStatus]_vars

\* ------------------------------------------------------------ text
\* A file name is a sequence of pieces.  A piece is a run of letters w (kept
\* in lower case) with the case c it is written in ("lower", "Title",
\* "UPPER"), or a run of other characters (a digit, a separator, a prefix or
\* an extension taken whole) with case "none".
A(w, c) == [w |-> w, c |-> c]

Digit(d) == A(d, "none")

IsDigit(a) == a.c = "none" /\ a.w \in {"0", "1", "2", "3", "4", "5", "6", "7", "8", "9"}

\* str.lower on one piece.
Low(a) == IF a.c = "none" THEN a ELSE [a EXCEPT !.c = "lower"]

RECURSIVE zfill(_, _)
\* str.zfill(width) on a string of digits.
zfill(q, width) ==
    IF Len(q) >= width THEN q ELSE zfill(<<Digit("0")>> \o q, width)

RECURSIVE lstrip0(_)
\* str.lstrip('0').
lstrip0(q) ==
    IF q # <<>> /\ q[1] = Digit("0") THEN lstrip0(Tail(q)) ELSE q

\* ------------------------------------------------------------ resolver study
\* The participant mapping of bids_path_from_rawname on its own: any mapping
\* table of at most MaxPmapRows rows, any participant, any session.
MaxPmapRows == 2

OldSubjects == {"0953", "0954"}
OldSessions == {"241104", "241105"}
NewIds == {<<Digit("1")>>, <<Digit("2")>>}

PmapRows ==
    [old_subj : OldSubjects, old_session : OldSessions,
     new_subj : NewIds, new_session : NewIds]

PmapTables ==
    {[loaded |-> FALSE, rows |-> <<>>]} \cup
    {[loaded |-> TRUE, rows |-> q] :
       q \in UNION {[1..n -> PmapRows] : n \in 0..MaxPmapRows}}

\* pmap.loc[pmap[column] == value]: the rows selected, in table order.
RowsWhere(pmap, column, value) ==
    SelectSeq(pmap.rows, LAMBDA row : row[column] = value)

\* Variant of mapped_identifiers that accepts a session the table lists for
\* any participant.
mapped_identifiers_any_session(pmap, subject, date_session) ==
    IF ~pmap.loaded
    THEN [ok |-> TRUE, unmapped |-> TRUE, subject |-> subject,
          session |-> date_session]
    ELSE LET check_subj == RowsWhere(pmap, "old_subj", subject) # <<>>
             check_date == RowsWhere(pmap, "old_session", date_session) # <<>>
         IN IF ~(check_subj /\ check_date)
            THEN [ok |-> FALSE]
            ELSE [ok |-> TRUE, unmapped |-> FALSE,
                  subject |-> zfill(RowsWhere(pmap, "old_subj", subject)[1].new_subj, 3),
                  session |-> zfill(RowsWhere(pmap, "old_session",
                                              date_session)[1].new_session, 2)]

\* bids_path_from_rawname, lines 156-174: the subject and session of the
\* target.  Without a table (pmap is None) they are the file's own (a session
\* directory named by its date is left as it is by lines 156-157); with a
\* table, the participant must be in it and the session must be listed for the
\* participant, else the function returns None (lines 169-171).
mapped_identifiers(pmap, subject, date_session) ==
    IF ~pmap.loaded
    THEN [ok |-> TRUE, unmapped |-> TRUE, subject |-> subject,
          session |-> date_session]
    ELSE LET check_subj == RowsWhere(pmap, "old_subj", subject) # <<>>
             check_date == \E i \in DOMAIN pmap.rows :
                             /\ pmap.rows[i].old_subj = subject
                             /\ pmap.rows[i].old_session = date_session
         IN IF ~(check_subj /\ check_date)
            THEN [ok |-> FALSE]
            ELSE [ok |-> TRUE, unmapped |-> FALSE,
                  subject |-> zfill(RowsWhere(pmap, "old_subj", subject)[1].new_subj, 3),
                  session |-> zfill(RowsWhere(pmap, "old_session",
                                              date_session)[1].new_session, 2)]

InitResolve ==
    /\ raw = {}
    /\ sig = [f \in Files |-> 1]
    /\ out = {}
    /\ bidsdir = {}
    /\ index = [f \in Files |-> 0]
    /\ ledger = [exists |-> FALSE, rows |-> <<>>]
    /\ corrupt = FALSE
    /\ pc = "idle"
    /\ df = <<>>
    /\ todo = <<>>
    /\ config = [Tasks |-> Files, Mapped |-> Files, Renamed |-> FALSE,
                 Overwrite_conversion |-> FALSE, overwrite |-> FALSE]
    /\ op = "init"
    /\ env = 0
    /\ mExisting = <<>>
    /\ mNew = <<>>
    /\ mResult = <<>>
    /\ sTask = ""
    /\ sTasks = {}
    /\ sChanged = FALSE
    /\ sStatus = ""
    /\ lLocation = "logdir"
    /\ lLogdir = <<>>
    /\ lFile = ""
    /\ iKind = "table"
    /\ pName = <<>>
    /\ pResult = [raised |-> FALSE]
    /\ rPmap \in PmapTables
    /\ rSubject \in OldSubjects
    /\ rSession \in OldSessions
    /\ rResult = [ok |-> FALSE]
    /\ jStatus = "none"
    /\ jProc = FALSE
    /\ jAborting = FALSE
    /\ jLogs = <<>>
    /\ jCode = -1
    /\ jStops = 0
    /\ tPc = "none"
    /\ tProc = "none"
    /\ tExit = 0
    /\ kPc = "none"
    /\ wPc = "none"
    /\ wIdx = 0
    /\ wQueue = <<>>
    /\ wReceived = <<>>
    /\ bOriginal = [form |-> "dict", table |-> <<>>]
    /\ bReport = [form |-> "dict", table |-> <<>>]
    /\ bRaised = FALSE
    /\ xTable = <<>>
    /\ xSubjects = <<>>

ResolveStep ==
    /\ op = "init"
    /\ rResult' = mapped_identifiers(rPmap, rSubject, rSession)
    /\ op' = "resolve"
    /\ UNCHANGED <<fsvars, bidsdir, index, ledger, corrupt, runvars, config, env,
                   mExisting, mNew, mResult, svars, lvars, iKind, pvars,
                   rPmap, rSubject, rSession,
                   xvars,
                   bvars,
                   jvars>>

NextResolve == ResolveStep

SpecResolve == InitResolve /\ [][NextResolve]_vars

\* ------------------------------------------------------------ parser study
\* extract_info_from_filename on the basename of a raw file: a prefix, the
\* participant's digits, up to MaxTaskTokens task tokens, processing tokens, a
\* datatype token, an optional split mark and the extension.
MaxTaskTokens == 3

Sep == A("_", "none")
Dash == A("-", "none")
Plus == A("+", "none")
Ext == A(".fif", "none")
NatMEG == A("NatMEG_", "none")
Sub == A("sub-", "none")

\* bidsify_constants.py, lines 2, 3 and 5 (of PROC_PATTERNS, the patterns a
\* name of the study can hold).
NOISE_PATTERNS == {A("empty", "lower"), A("noise", "lower"), A("empty", "Title")}
HEADPOS_PATTERNS == <<"headpos", "headshape">>
PROC_PATTERNS == {"tsss", "sss", "mc"}

DatatypeWords == {"meg", "raw", "opm", "eeg", "behav"}

\* The names of the study.
TaskTokens ==
    {<<A("phalanges", "Title")>>,
     <<A("noise", "lower")>>, <<A("empty", "lower")>>, <<A("room", "lower")>>,
     <<A("before", "lower")>>, <<A("after", "lower")>>,
     <<A("d", "Title"), A("raw", "lower"), A("ing", "lower")>>,
     <<A("mc", "Title"), A("gurk", "Title")>>}

ParticipantDigits ==
    {<<Digit("0"), Digit("0"), Digit("1")>>,
     <<Digit("0"), Digit("0"), Digit("0"), Digit("1")>>,
     <<Digit("0"), Digit("9"), Digit("5"), Digit("3")>>}

ProcessingTokens == {<<>>, <<"tsss", "mc">>}

FileNames ==
    [prefix : {NatMEG, Sub},
     id : ParticipantDigits,
     task : UNION {[1..n -> TaskTokens] : n \in 1..MaxTaskTokens},
     proc : ProcessingTokens,
     datatype : {"meg", "raw", "eeg", "opm"},
     split : {<<>>, <<Dash, Digit("1")>>}]

RECURSIVE Concat(_)
\* ''.join(parts).
Concat(parts) ==
    IF parts = <<>> THEN <<>> ELSE Head(parts) \o Concat(Tail(parts))

\* The basename a name of the study stands for, e.g.
\* NatMEG_001_Phalanges_tsss_mc_meg.fif.
Basename(n) ==
    <<n.prefix>> \o n.id
      \o Concat([i \in DOMAIN n.task |-> <<Sep>> \o n.task[i]])
      \o Concat([i \in DOMAIN n.proc |-> <<Sep, A(n.proc[i], "lower")>>])
      \o <<Sep, A(n.datatype, "lower")>> \o n.split \o <<Ext>>

RECURSIVE DigitRun(_, _)
\* \d+ at position i.
DigitRun(name, i) ==
    IF i <= Len(name) /\ IsDigit(name[i])
    THEN <<name[i]>> \o DigitRun(name, i + 1)
    ELSE <<>>

\* Lines 31-34: the digits behind the first prefix, padded to four, and
\* re-padded to three when fewer than three digits are significant.
participant_of(name) ==
    LET at == {i \in DOMAIN name :
                 name[i] \in {NatMEG, Sub} /\ DigitRun(name, i + 1) # <<>>}
        i == CHOOSE j \in at : \A k \in at : j <= k
        padded == zfill(DigitRun(name, i + 1), 4)
    IN IF Len(lstrip0(padded)) < 3 THEN zfill(lstrip0(padded), 3) ELSE padded

\* Lines 36-39: the datatype keywords found anywhere in the basename, in any
\* case, lowered; the prefix NatMEG_ holds one.
datatypes_of(name) ==
    {name[i].w : i \in {j \in DOMAIN name :
                          name[j].c # "none" /\ name[j].w \in DatatypeWords}}
      \cup (IF \E i \in DOMAIN name : name[i] = NatMEG THEN {"meg"} ELSE {})

\* Line 41: the processing patterns found in the basename, case-sensitively,
\* in the order of the name.
proc_of(name) ==
    SelectSeq(name, LAMBDA a : a.c = "lower" /\ a.w \in PROC_PATTERNS)

\* Lines 50-51: "-<digits>" right before the extension.
split_of(name) ==
    LET at == {i \in DOMAIN name :
                 /\ name[i] = Dash
                 /\ DigitRun(name, i + 1) # <<>>
                 /\ i + Len(DigitRun(name, i + 1)) + 1 <= Len(name)
                 /\ name[i + Len(DigitRun(name, i + 1)) + 1] = Ext}
    IN IF at = {} THEN <<>>
       ELSE LET i == CHOOSE j \in at : \A k \in at : j <= k
            IN <<Dash>> \o DigitRun(name, i + 1)

RECURSIVE WordPatterns(_)
\* The patterns of a set of keywords, one after the other.
WordPatterns(S) ==
    IF S = {} THEN <<>>
    ELSE LET w == CHOOSE x \in S : TRUE
         IN <<<<A(w, "lower")>>>> \o WordPatterns(S \ {w})

\* exclude_from_task (lines 53-61): the alternatives of the pattern, in order.
\* An alternative that is the empty string (no suffix, no split, no
\* description) removes nothing and hides no later alternative.
exclude_from_task(name) ==
    LET datatypes == datatypes_of(name)
        suffix == IF \E a \in DOMAIN name :
                        name[a].c = "lower" /\ name[a].w \in {"headpos", "headshape"}
                  THEN {"headshape"}
                  ELSE IF "raw" \in datatypes \/ "meg" \in datatypes
                  THEN {"meg"} ELSE {}
        desc == IF \E a \in DOMAIN name : name[a] = A("trans", "lower")
                THEN {"trans"} ELSE {}
        proc == [i \in DOMAIN proc_of(name) |-> <<proc_of(name)[i]>>]
        split == IF split_of(name) = <<>> THEN <<>> ELSE <<split_of(name)>>
    IN IF "opm" \in datatypes
       THEN <<<<NatMEG>>, <<Sub>>>> \o WordPatterns(datatypes)
              \o <<participant_of(name), <<Ext>>>> \o proc \o split
              \o <<<<Plus>>, <<Dash>>, <<A("file", "lower")>>>>
              \o WordPatterns(desc)
              \o <<<<A("hpi", "lower")>>, <<A("ds", "lower")>>>>
       ELSE <<<<NatMEG>>, <<Sub>>, <<A("proc", "lower")>>>>
              \o WordPatterns(datatypes)
              \o <<participant_of(name), <<Ext>>>> \o WordPatterns(suffix)
              \o [i \in DOMAIN HEADPOS_PATTERNS |->
                    <<A(HEADPOS_PATTERNS[i], "lower")>>]
              \o proc \o split \o <<<<Plus>>, <<Dash>>>> \o WordPatterns(desc)

\* The pattern matches at position i of the name, case ignored.
MatchAt(name, i, pattern) ==
    /\ pattern # <<>>
    /\ i + Len(pattern) - 1 <= Len(name)
    /\ \A k \in DOMAIN pattern : Low(name[i + k - 1]) = Low(pattern[k])

RECURSIVE RemoveMatches(_, _, _)
\* re.sub(exclude_from_task, '', basename, flags=re.IGNORECASE) (lines 63,
\* 66), from position i on: at each position the first alternative that
\* matches is removed.
RemoveMatches(name, i, patterns) ==
    IF i > Len(name) THEN <<>>
    ELSE LET hits == {k \in DOMAIN patterns : MatchAt(name, i, patterns[k])}
         IN IF hits = {}
            THEN <<name[i]>> \o RemoveMatches(name, i + 1, patterns)
            ELSE LET k == CHOOSE h \in hits : \A g \in hits : h <= g
                 IN RemoveMatches(name, i + Len(patterns[k]), patterns)

RECURSIVE Fragments(_)
\* [t for t in task.split('_') if t] (line 68).
Fragments(q) ==
    IF q = <<>> THEN <<>>
    ELSE IF q[1] = Sep THEN Fragments(Tail(q))
    ELSE LET n == CHOOSE m \in 1..Len(q) :
                    /\ \A k \in 1..m : q[k] # Sep
                    /\ m = Len(q) \/ q[m + 1] = Sep
         IN <<SubSeq(q, 1, n)>> \o Fragments(SubSeq(q, n + 1, Len(q)))

\* str.title (line 70): a letter that starts a run of letters goes to upper
\* case, every other letter to lower case.
Title(t) ==
    [i \in DOMAIN t |->
       IF t[i].c = "none" THEN t[i]
       ELSE IF i = 1 \/ t[i - 1].c = "none"
       THEN [t[i] EXCEPT !.c = "Title"]
       ELSE [t[i] EXCEPT !.c = "lower"]]

\* Lines 69-72, on a non-empty list of tokens.
camel_case(tokens) ==
    IF Len(tokens) > 1
    THEN Concat([i \in DOMAIN tokens |-> Title(tokens[i])])
    ELSE tokens[1]

\* Variant of noise_task that ignores "before" and "after".
noise_task_plain(task) ==
    IF \E i \in DOMAIN task : task[i] \in NOISE_PATTERNS
    THEN <<A("noise", "Title")>>
    ELSE task

\* Lines 74-78: a task that holds a noise pattern (case-sensitively) becomes
\* Noise, followed by the first "before" or "after" of the lowered task.
noise_task(task) ==
    IF \E i \in DOMAIN task : task[i] \in NOISE_PATTERNS
    THEN LET at == {i \in DOMAIN task :
                      task[i].c # "none" /\ task[i].w \in {"before", "after"}}
         IN IF at = {} THEN <<A("noise", "Title")>>
            ELSE LET i == CHOOSE j \in at : \A k \in at : j <= k
                 IN <<A("noise", "Title"), A(task[i].w, "Title")>>
    ELSE task

\* Lines 63-68: what is left of the basename, split at the underscores.
task_tokens(name) ==
    Fragments(RemoveMatches(name, 1, exclude_from_task(name)))

\* extract_info_from_filename (lines 20-92).  task[0] on an empty list of
\* tokens raises IndexError (line 72).
extract_info_from_filename(name) ==
    LET tokens == task_tokens(name)
        datatypes == datatypes_of(name)
    IN IF tokens = <<>>
       THEN [raised |-> TRUE]
       ELSE [raised |-> FALSE,
             participant |-> participant_of(name),
             task |-> noise_task(camel_case(tokens)),
             split |-> split_of(name),
             processing |-> proc_of(name),
             datatypes |-> datatypes]

InitParse ==
    /\ raw = {}
    /\ sig = [f \in Files |-> 1]
    /\ out = {}
    /\ bidsdir = {}
    /\ index = [f \in Files |-> 0]
    /\ ledger = [exists |-> FALSE, rows |-> <<>>]
    /\ corrupt = FALSE
    /\ pc = "idle"
    /\ df = <<>>
    /\ todo = <<>>
    /\ config = [Tasks |-> Files, Mapped |-> Files, Renamed |-> FALSE,
                 Overwrite_conversion |-> FALSE, overwrite |-> FALSE]
    /\ op = "init"
    /\ env = 0
    /\ mExisting = <<>>
    /\ mNew = <<>>
    /\ mResult = <<>>
    /\ sTask = ""
    /\ sTasks = {}
    /\ sChanged = FALSE
    /\ sStatus = ""
    /\ lLocation = "logdir"
    /\ lLogdir = <<>>
    /\ lFile = ""
    /\ iKind = "table"
    /\ pName \in FileNames
    /\ pResult = [raised |-> FALSE]
    /\ rPmap = [loaded |-> FALSE, rows |-> <<>>]
    /\ rSubject = ""
    /\ rSession = ""
    /\ rResult = [ok |-> FALSE]
    /\ jStatus = "none"
    /\ jProc = FALSE
    /\ jAborting = FALSE
    /\ jLogs = <<>>
    /\ jCode = -1
    /\ jStops = 0
    /\ tPc = "none"
    /\ tProc = "none"
    /\ tExit = 0
    /\ kPc = "none"
    /\ wPc = "none"
    /\ wIdx = 0
    /\ wQueue = <<>>
    /\ wReceived = <<>>
    /\ bOriginal = [form |-> "dict", table |-> <<>>]
    /\ bReport = [form |-> "dict", table |-> <<>>]
    /\ bRaised = FALSE
    /\ xTable = <<>>
    /\ xSubjects = <<>>

ParseStep ==
    /\ op = "init"
    /\ pResult' = extract_info_from_filename(Basename(pName))
    /\ op' = "parse"
    /\ UNCHANGED <<fsvars, bidsdir, index, ledger, corrupt, runvars, config, env,
                   mExisting, mNew, mResult, svars, lvars, iKind, pName, rvars,
                   xvars,
                   bvars,
                   jvars>>

NextParse == ParseStep

SpecParse == InitParse /\ [][NextParse]_vars

\* ------------------------------------------------------------ executor study
\* The subject of the target descriptor in the executor's loop on its own:
\* any table of at most MaxTableRows rows, every row selected for conversion.
MaxTableRows == 3

ExecParticipants ==
    {<<Digit("1")>>, <<Digit("1"), Digit("2")>>,
     <<Digit("0"), Digit("9"), Digit("5"), Digit("3")>>}
ExecSessions == {<<Digit("1")>>, <<Digit("2")>>}
ExecRows ==
    [participant_to : ExecParticipants, session_to : ExecSessions,
     datatype : {"meg", "eeg"}]

RECURSIVE drop_duplicates(_)
\* DataFrame.drop_duplicates (line 61): the first occurrence of every row, in
\* table order.
drop_duplicates(q) ==
    IF q = <<>> THEN <<>>
    ELSE LET rest == drop_duplicates(SelectSeq(Tail(q), LAMBDA r : r # Head(q)))
         IN <<Head(q)>> \o rest

\* The padding of lines 63-66.
pad_subject(p) ==
    IF Len(lstrip0(p)) >= 3 THEN zfill(p, 4) ELSE zfill(lstrip0(p), 3)

\* subject_padded when the directory loop (lines 62-81) has ended: the value
\* its last iteration assigned.
subject_padded(table) ==
    LET unique_participants_sessions == drop_duplicates(table)
    IN pad_subject(unique_participants_sessions[
                     Len(unique_participants_sessions)].participant_to)

\* The subject of the descriptor each row is written with (lines 149-150:
\* bids_path.update(subject=subject_padded, ...)).
target_subjects(table) ==
    [i \in DOMAIN table |-> subject_padded(table)]

InitExec ==
    /\ raw = {}
    /\ sig = [f \in Files |-> 1]
    /\ out = {}
    /\ bidsdir = {}
    /\ index = [f \in Files |-> 0]
    /\ ledger = [exists |-> FALSE, rows |-> <<>>]
    /\ corrupt = FALSE
    /\ pc = "idle"
    /\ df = <<>>
    /\ todo = <<>>
    /\ config = [Tasks |-> Files, Mapped |-> Files, Renamed |-> FALSE,
                 Overwrite_conversion |-> FALSE, overwrite |-> FALSE]
    /\ op = "init"
    /\ env = 0
    /\ mExisting = <<>>
    /\ mNew = <<>>
    /\ mResult = <<>>
    /\ sTask = ""
    /\ sTasks = {}
    /\ sChanged = FALSE
    /\ sStatus = ""
    /\ lLocation = "logdir"
    /\ lLogdir = <<>>
    /\ lFile = ""
    /\ iKind = "table"
    /\ pName = <<>>
    /\ pResult = [raised |-> FALSE]
    /\ rPmap = [loaded |-> FALSE, rows |-> <<>>]
    /\ rSubject = ""
    /\ rSession = ""
    /\ rResult = [ok |-> FALSE]
    /\ jStatus = "none"
    /\ jProc = FALSE
    /\ jAborting = FALSE
    /\ jLogs = <<>>
    /\ jCode = -1
    /\ jStops = 0
    /\ tPc = "none"
    /\ tProc = "none"
    /\ tExit = 0
    /\ kPc = "none"
    /\ wPc = "none"
    /\ wIdx = 0
    /\ wQueue = <<>>
    /\ wReceived = <<>>
    /\ bOriginal = [form |-> "dict", table |-> <<>>]
    /\ bReport = [form |-> "dict", table |-> <<>>]
    /\ bRaised = FALSE
    /\ xTable \in UNION {[1..n -> ExecRows] : n \in 1..MaxTableRows}
    /\ xSubjects = <<>>

ConvertStep ==
    /\ op = "init"
    /\ xSubjects' = target_subjects(xTable)
    /\ op' = "convert"
    /\ UNCHANGED <<fsvars, bidsdir, index, ledger, corrupt, runvars, config, env,
                   mExisting, mNew, mResult, svars, lvars, iKind, pvars, rvars,
                   xTable,
                   bvars,
                   jvars>>

NextExec == ConvertStep

SpecExec == InitExec /\ [][NextExec]_vars

\* ------------------------------------------------------------ report study
\* consolidate_bids_report on its own: any report file of at most MaxEntries
\* entries, consolidated twice.  A report file is a JSON object with the
\* entries under 'Report Table' (form "dict"), or a bare JSON list of entries
\* (form "list"); both are read by lines 242-245.  An entry is its pair
\* (Source File, BIDS File), its timestamp (0: the entry has no timestamp and
\* line 261 takes the default, which sorts below every timestamp) and tag, the
\* rest of its fields.
MaxEntries == 3

ReportPairs == {"a", "b"}
ReportEntries == [pair : ReportPairs, timestamp : 0..2, tag : 1..2]
ReportFiles ==
    [form : {"dict", "list"},
     table : UNION {[1..n -> ReportEntries] : n \in 0..MaxEntries}]

\* consolidated[key] = entry (lines 263-264) on the insertion-ordered dict:
\* a new key goes last, a key already present keeps its place and takes the
\* entry only when the entry's timestamp is strictly greater.
keep_most_recent(consolidated, entry) ==
    IF \E i \in DOMAIN consolidated : consolidated[i].pair = entry.pair
    THEN [i \in DOMAIN consolidated |->
            IF consolidated[i].pair = entry.pair
               /\ entry.timestamp > consolidated[i].timestamp
            THEN entry ELSE consolidated[i]]
    ELSE Append(consolidated, entry)

RECURSIVE consolidated_entries(_, _)
\* The loop of lines 258-266.
consolidated_entries(entries, consolidated) ==
    IF entries = <<>> THEN consolidated
    ELSE consolidated_entries(Tail(entries),
                              keep_most_recent(consolidated, Head(entries)))

\* consolidate_bids_report (lines 230-287): whether it raised, and the report
\* file afterwards.  Nothing is written when the report is empty (line 250)
\* or holds no duplicate (line 269).  Line 280 assigns
\* report_data['Report Table'] on the object read again from the file: on a
\* bare list the assignment raises TypeError, before the file is opened for
\* writing.
consolidate_bids_report(report) ==
    LET kept == consolidated_entries(report.table, <<>>)
    IN IF report.table = <<>> \/ Len(kept) = Len(report.table)
       THEN [raised |-> FALSE, report |-> report]
       ELSE IF report.form = "list"
       THEN [raised |-> TRUE, report |-> report]
       ELSE [raised |-> FALSE, report |-> [report EXCEPT !.table = kept]]

InitReport ==
    /\ raw = {}
    /\ sig = [f \in Files |-> 1]
    /\ out = {}
    /\ bidsdir = {}
    /\ index = [f \in Files |-> 0]
    /\ ledger = [exists |-> FALSE, rows |-> <<>>]
    /\ corrupt = FALSE
    /\ pc = "idle"
    /\ df = <<>>
    /\ todo = <<>>
    /\ config = [Tasks |-> Files, Mapped |-> Files, Renamed |-> FALSE,
                 Overwrite_conversion |-> FALSE, overwrite |-> FALSE]
    /\ op = "init"
    /\ env = 0
    /\ mExisting = <<>>
    /\ mNew = <<>>
    /\ mResult = <<>>
    /\ sTask = ""
    /\ sTasks = {}
    /\ sChanged = FALSE
    /\ sStatus = ""
    /\ lLocation = "logdir"
    /\ lLogdir = <<>>
    /\ lFile = ""
    /\ iKind = "table"
    /\ pName = <<>>
    /\ pResult = [raised |-> FALSE]
    /\ rPmap = [loaded |-> FALSE, rows |-> <<>>]
    /\ rSubject = ""
    /\ rSession = ""
    /\ rResult = [ok |-> FALSE]
    /\ jStatus = "none"
    /\ jProc = FALSE
    /\ jAborting = FALSE
    /\ jLogs = <<>>
    /\ jCode = -1
    /\ jStops = 0
    /\ tPc = "none"
    /\ tProc = "none"
    /\ tExit = 0
    /\ kPc = "none"
    /\ wPc = "none"
    /\ wIdx = 0
    /\ wQueue = <<>>
    /\ wReceived = <<>>
    /\ bOriginal \in ReportFiles
    /\ bReport = bOriginal
    /\ bRaised = FALSE
    /\ xTable = <<>>
    /\ xSubjects = <<>>

\* main --consolidate-report (lines 546-549), a first and a second time.
ConsolidateStep ==
    /\ op \in {"init", "consolidate"}
    /\ LET r == consolidate_bids_report(bReport)
       IN /\ bReport' = r.report
          /\ bRaised' = r.raised
    /\ op' = IF op = "init" THEN "consolidate" ELSE "consolidate_again"
    /\ UNCHANGED <<fsvars, bidsdir, index, ledger, corrupt, runvars, config, env,
                   mExisting, mNew, mResult, svars, lvars, iKind, pvars, rvars,
                   xvars, bOriginal,
                   jvars>>

NextReport == ConsolidateStep

SpecReport == InitReport /\ [][NextReport]_vars

\* ------------------------------------------------------------ job study
\* One job of the server (server/app.py): create_job and its _background
\* task, the subprocess, stop_job and its _ensure_terminate task, and one
\* websocket subscriber of the job's log.  The handlers are coroutines of one
\* event loop: a step runs from one suspending await to the next.  q.put on
\* the unbounded asyncio.Queue of a subscriber never suspends.
MaxLines == 2          \* lines the subprocess writes to stdout and stderr
MaxStops == 1          \* stop requests stop_job accepts

\* The n-th line of the subprocess, the n-th [STOP] line.
OutLine(n) == "line" \o ToString(n)
StopLine(n) == "stop" \o ToString(n)
OutLines == {OutLine(n) : n \in 1..MaxLines}
\* The lines of logs read from the subprocess ('stream' is not 'meta').
Captured(logs) == SelectSeq(logs, LAMBDA l : l \in OutLines)

\* q is in JOBS[job_id]['clients'] from line 919 until the finally clause.
Registered == wPc \in {"backlog", "queue"}
\* for q in list(JOBS[job_id].get('clients', [])): await q.put(text).
Broadcast(text) ==
    wQueue' = IF Registered THEN Append(wQueue, text) ELSE wQueue

\* Variant of final_status that looks at the exit code only.
final_status_by_code(aborting, code) ==
    IF code = 0 THEN "completed" ELSE "failed"

\* The status _stream_subprocess assigns (lines 637-640).
final_status(aborting, code) ==
    IF aborting THEN "aborted"
    ELSE IF code = 0 THEN "completed" ELSE "failed"

InitJob ==
    /\ raw = {}
    /\ sig = [f \in Files |-> 1]
    /\ out = {}
    /\ bidsdir = {}
    /\ index = [f \in Files |-> 0]
    /\ ledger = [exists |-> FALSE, rows |-> <<>>]
    /\ corrupt = FALSE
    /\ pc = "idle"
    /\ df = <<>>
    /\ todo = <<>>
    /\ config = [Tasks |-> Files, Mapped |-> Files, Renamed |-> FALSE,
                 Overwrite_conversion |-> FALSE, overwrite |-> FALSE]
    /\ op = "init"
    /\ env = 0
    /\ mExisting = <<>>
    /\ mNew = <<>>
    /\ mResult = <<>>
    /\ sTask = ""
    /\ sTasks = {}
    /\ sChanged = FALSE
    /\ sStatus = ""
    /\ lLocation = "logdir"
    /\ lLogdir = <<>>
    /\ lFile = ""
    /\ iKind = "table"
    /\ pName = <<>>
    /\ pResult = [raised |-> FALSE]
    /\ rPmap = [loaded |-> FALSE, rows |-> <<>>]
    /\ rSubject = ""
    /\ rSession = ""
    /\ rResult = [ok |-> FALSE]
    /\ jStatus = "none"
    /\ jProc = FALSE
    /\ jAborting = FALSE
    /\ jLogs = <<>>
    /\ jCode = -1
    /\ jStops = 0
    /\ tPc = "none"
    /\ tProc = "none"
    /\ tExit = 0
    /\ kPc = "none"
    /\ wPc = "none"
    /\ wIdx = 0
    /\ wQueue = <<>>
    /\ wReceived = <<>>
    /\ bOriginal = [form |-> "dict", table |-> <<>>]
    /\ bReport = [form |-> "dict", table |-> <<>>]
    /\ bRaised = FALSE
    /\ xTable = <<>>
    /\ xSubjects = <<>>

\* create_job (lines 652-801) with a valid configuration: the job record is
\* stored with status 'queued' (line 669), set to 'running' (line 714) and the
\* _background task is created (line 800), with no await in between.
CreateJob ==
    /\ jStatus = "none"
    /\ jStatus' = "running"
    /\ tPc' = "created"
    /\ op' = "create_job"
    /\ UNCHANGED <<fsvars, bidsdir, index, ledger, corrupt, runvars, config, env,
                   mExisting, mNew, mResult, svars, lvars, iKind, pvars, rvars,
                   xvars, bvars, jProc, jAborting, jLogs, jCode, jStops, tProc,
                   tExit, kPc, wPc, wIdx, wQueue, wReceived>>

\* _background up to the await of create_subprocess_exec (lines 716-732,
\* 605-610): the [CMD] line is logged and forwarded.
BackgroundStart ==
    /\ tPc = "created"
    /\ jLogs' = Append(jLogs, "cmd")
    /\ Broadcast("cmd")
    /\ tPc' = "spawning"
    /\ op' = "background"
    /\ UNCHANGED <<fsvars, bidsdir, index, ledger, corrupt, runvars, config, env,
                   mExisting, mNew, mResult, svars, lvars, iKind, pvars, rvars,
                   xvars, bvars, jStatus, jProc, jAborting, jCode, jStops, tProc,
                   tExit, kPc, wPc, wIdx, wReceived>>

\* create_subprocess_exec returns the process, which is published in the job
\* record (lines 613-618), or raises (the command cannot be executed): the
\* exception leaves _stream_subprocess and _background, whose try has a
\* finally and no except (lines 717, 797-798).
Spawn ==
    /\ tPc = "spawning"
    /\ \E started \in BOOLEAN :
         IF started
         THEN /\ jProc' = TRUE
              /\ tProc' = "alive"
              /\ tPc' = "reading"
              /\ op' = "spawn"
         ELSE /\ tPc' = "dead"
              /\ op' = "spawn_raised"
              /\ UNCHANGED <<jProc, tProc>>
    /\ UNCHANGED <<fsvars, bidsdir, index, ledger, corrupt, runvars, config, env,
                   mExisting, mNew, mResult, svars, lvars, iKind, pvars, rvars,
                   xvars, bvars, jStatus, jAborting, jLogs, jCode, jStops,
                   tExit, kPc, wPc, wIdx, wQueue, wReceived>>

\* One iteration of read_stream (lines 620-629): a line of the subprocess is
\* appended to logs and put in every client queue.  Lines the subprocess
\* wrote before it exited are still read afterwards.
ReadLine ==
    /\ tPc = "reading"
    /\ Len(Captured(jLogs)) < MaxLines
    /\ LET text == OutLine(Len(Captured(jLogs)) + 1)
       IN /\ jLogs' = Append(jLogs, text)
          /\ Broadcast(text)
    /\ op' = "read_line"
    /\ UNCHANGED <<fsvars, bidsdir, index, ledger, corrupt, runvars, config, env,
                   mExisting, mNew, mResult, svars, lvars, iKind, pvars, rvars,
                   xvars, bvars, jStatus, jProc, jAborting, jCode, jStops, tPc,
                   tProc, tExit, kPc, wPc, wIdx, wReceived>>

\* stream.readline() raises (line 622: ValueError for a line longer than the
\* StreamReader limit): gather (line 632) passes the exception on, and it
\* leaves _stream_subprocess and _background.
StreamRaises ==
    /\ tPc = "reading"
    /\ tPc' = "dead"
    /\ op' = "stream_raised"
    /\ UNCHANGED <<fsvars, bidsdir, index, ledger, corrupt, runvars, config, env,
                   mExisting, mNew, mResult, svars, lvars, iKind, pvars, rvars,
                   xvars, bvars, jStatus, jProc, jAborting, jLogs, jCode, jStops,
                   tProc, tExit, kPc, wPc, wIdx, wQueue, wReceived>>

\* The subprocess ends: by itself, or on the SIGTERM of stop_job.
ProcessExits ==
    /\ tProc = "alive"
    /\ tProc' = "exited"
    /\ \E code \in {0, 1} : tExit' = code
    /\ op' = "exit"
    /\ UNCHANGED <<fsvars, bidsdir, index, ledger, corrupt, runvars, config, env,
                   mExisting, mNew, mResult, svars, lvars, iKind, pvars, rvars,
                   xvars, bvars, jStatus, jProc, jAborting, jLogs, jCode, jStops,
                   tPc, kPc, wPc, wIdx, wQueue, wReceived>>

\* _stream_subprocess after the streams have ended and proc.wait() has
\* returned (lines 632-649): return code, status, the __JOB_DONE__ message to
\* every client queue, and the process handle removed.
Finish ==
    /\ tPc = "reading"
    /\ tProc = "exited"
    /\ jCode' = tExit
    /\ jStatus' = final_status(jAborting, tExit)
    /\ Broadcast("done")
    /\ jProc' = FALSE
    /\ tPc' = "finished"
    /\ op' = "finish"
    /\ UNCHANGED <<fsvars, bidsdir, index, ledger, corrupt, runvars, config, env,
                   mExisting, mNew, mResult, svars, lvars, iKind, pvars, rvars,
                   xvars, bvars, jAborting, jLogs, jStops, tProc, tExit, kPc,
                   wPc, wIdx, wReceived>>

\* _background after _stream_subprocess (lines 734-798): when logs holds no
\* line of the subprocess, a hint is logged and forwarded; then the artifacts
\* are looked up.
AfterStream ==
    /\ tPc = "finished"
    /\ IF Captured(jLogs) = <<>>
       THEN /\ jLogs' = Append(jLogs, "hint")
            /\ Broadcast("hint")
       ELSE UNCHANGED <<jLogs, wQueue>>
    /\ tPc' = "done"
    /\ op' = "after_stream"
    /\ UNCHANGED <<fsvars, bidsdir, index, ledger, corrupt, runvars, config, env,
                   mExisting, mNew, mResult, svars, lvars, iKind, pvars, rvars,
                   xvars, bvars, jStatus, jProc, jAborting, jCode, jStops, tProc,
                   tExit, kPc, wPc, wIdx, wReceived>>

\* stop_job (lines 834-879) on the job: 409 when the record holds no process
\* handle (lines 845-848); else aborting is set, the [STOP] line is logged and
\* forwarded, the process is sent SIGTERM and the _ensure_terminate task is
\* created, and the request returns ok.
StopJob ==
    /\ jStatus # "none"
    /\ IF ~jProc
       THEN /\ op' = "stop_refused"
            /\ UNCHANGED <<jAborting, jLogs, jStops, kPc, wQueue>>
       ELSE /\ jStops < MaxStops
            /\ jAborting' = TRUE
            /\ jLogs' = Append(jLogs, StopLine(jStops + 1))
            /\ Broadcast(StopLine(jStops + 1))
            /\ kPc' = "grace"
            /\ jStops' = jStops + 1
            /\ op' = "stop_ok"
    /\ UNCHANGED <<fsvars, bidsdir, index, ledger, corrupt, runvars, config, env,
                   mExisting, mNew, mResult, svars, lvars, iKind, pvars, rvars,
                   xvars, bvars, jStatus, jProc, jCode, tPc, tProc, tExit, wPc,
                   wIdx, wReceived>>

\* _ensure_terminate (lines 863-874) when its grace period is over: it
\* returns when the process has exited, and kills it otherwise.
EnsureTerminate ==
    /\ kPc = "grace"
    /\ IF tProc = "alive"
       THEN /\ tProc' = "exited"
            /\ tExit' = 1
       ELSE UNCHANGED <<tProc, tExit>>
    /\ kPc' = "done"
    /\ op' = "ensure_terminate"
    /\ UNCHANGED <<fsvars, bidsdir, index, ledger, corrupt, runvars, config, env,
                   mExisting, mNew, mResult, svars, lvars, iKind, pvars, rvars,
                   xvars, bvars, jStatus, jProc, jAborting, jLogs, jCode, jStops,
                   tPc, wPc, wIdx, wQueue, wReceived>>

\* websocket_logs (lines 909-923) for a job that exists: the queue is created
\* and added to the job's clients, and the backlog loop starts; with no entry
\* in logs the handler goes on to its queue at once.
Connect ==
    /\ wPc = "none"
    /\ jStatus # "none"
    /\ wPc' = IF jLogs = <<>> THEN "queue" ELSE "backlog"
    /\ op' = "connect"
    /\ UNCHANGED <<fsvars, bidsdir, index, ledger, corrupt, runvars, config, env,
                   mExisting, mNew, mResult, svars, lvars, iKind, pvars, rvars,
                   xvars, bvars, jStatus, jProc, jAborting, jLogs, jCode, jStops,
                   tPc, tProc, tExit, kPc, wIdx, wQueue, wReceived>>

\* One iteration of the backlog loop (lines 923-924): the entry is sent, and
\* the iterator over the list logs is asked for the next entry; the list is
\* the live list of the job, so entries appended during the send are found;
\* when the list holds no further entry the handler goes on to its queue.
SendBacklog ==
    /\ wPc = "backlog"
    /\ wReceived' = Append(wReceived, jLogs[wIdx + 1])
    /\ wIdx' = wIdx + 1
    /\ wPc' = IF wIdx + 1 < Len(jLogs) THEN "backlog" ELSE "queue"
    /\ op' = "send_backlog"
    /\ UNCHANGED <<fsvars, bidsdir, index, ledger, corrupt, runvars, config, env,
                   mExisting, mNew, mResult, svars, lvars, iKind, pvars, rvars,
                   xvars, bvars, jStatus, jProc, jAborting, jLogs, jCode, jStops,
                   tPc, tProc, tExit, kPc, wQueue>>

\* The queue loop (lines 926-933): the next message of the queue is sent; a
\* message that starts with __JOB_DONE__ ends the loop, and the finally clause
\* removes the queue from the job's clients (lines 936-940).
SendQueued ==
    /\ wPc = "queue"
    /\ wQueue # <<>>
    /\ wReceived' = Append(wReceived, Head(wQueue))
    /\ wQueue' = Tail(wQueue)
    /\ wPc' = IF Head(wQueue) = "done" THEN "closed" ELSE "queue"
    /\ op' = "send_queued"
    /\ UNCHANGED <<fsvars, bidsdir, index, ledger, corrupt, runvars, config, env,
                   mExisting, mNew, mResult, svars, lvars, iKind, pvars, rvars,
                   xvars, bvars, jStatus, jProc, jAborting, jLogs, jCode, jStops,
                   tPc, tProc, tExit, kPc, wIdx>>

NextJob ==
    \/ CreateJob
    \/ BackgroundStart
    \/ Spawn
    \/ ReadLine
    \/ StreamRaises
    \/ ProcessExits
    \/ Finish
    \/ AfterStream
    \/ StopJob
    \/ EnsureTerminate
    \/ Connect
    \/ SendBacklog
    \/ SendQueued

SpecJob == InitJob /\ [][NextJob]_vars

\* The event loop runs every task that can go on, the subprocess ends, and a
\* grace period ends.  Nothing obliges a client to send a stop request or to
\* subscribe, a subprocess to write a line, or an await to raise.
JobFairness ==
    /\ WF_vars(BackgroundStart)
    /\ WF_vars(Spawn)
    /\ WF_vars(ProcessExits)
    /\ WF_vars(Finish)
    /\ WF_vars(AfterStream)
    /\ WF_vars(EnsureTerminate)
    /\ WF_vars(SendBacklog)
    /\ WF_vars(SendQueued)

SpecJobFair == InitJob /\ [][NextJob]_vars /\ JobFairness

\* ------------------------------------------------------------ properties
NoDuplicateKeys(table) ==
    \A i, j \in DOMAIN table : i # j => Key(table[i]) # Key(table[j])
\* Some file of the derived tree has the target's base name.
OutputOnDisk(t) == \E k \in Kinds : <<t, k>> \in out
\* A step of Analyse that loads the existing conversion file (no regeneration):
\* row i of the file is row i of the table reconciled, merged and written.
RescanStep ==
    op' = "analyse" /\ ledger.exists /\ ~config.Overwrite_conversion

C2_MergeKeepsExisting ==
    op = "merge" =>
      /\ Len(mResult) = Len(mExisting)
                          + Cardinality(Keys(mNew) \ Keys(mExisting))
      /\ SubSeq(mResult, 1, Len(mExisting)) = mExisting
      /\ {Key(mResult[i]) : i \in (Len(mExisting) + 1)..Len(mResult)}
           = Keys(mNew) \ Keys(mExisting)

\* Witness of C2: a processed row whose file was scanned again, merged with a
\* candidate for a new file.
C2_Witness ==
    /\ op = "merge"
    /\ Len(mResult) > Len(mExisting)
    /\ \E i \in DOMAIN mExisting :
         /\ mExisting[i].status = "processed"
         /\ Key(mExisting[i]) \in Keys(mNew)

\* C3: no two rows of the conversion file, nor of the executor's table, share
\* a key.
C3_UniqueKeys ==
    NoDuplicateKeys(ledger.rows) /\ NoDuplicateKeys(df)

\* Witness of C3: a rescan over a ledger that holds a converted row and
\* another row.
C3_Witness ==
    /\ op = "analyse"
    /\ Len(ledger.rows) >= 2
    /\ \E i \in DOMAIN ledger.rows : ledger.rows[i].attempt_count > 0

\* C4 (as stated): every key of the conversion file is still in it after any
\* step.
C4_AppendOnly ==
    [][Keys(ledger.rows) \subseteq Keys(ledger'.rows)]_vars

\* C4 (amended): unless the configuration sets Overwrite_conversion, every
\* key of the conversion file is still in it after any step.
C4_AppendOnlyUnlessOverwrite ==
    [][~config.Overwrite_conversion =>
         Keys(ledger.rows) \subseteq Keys(ledger'.rows)]_vars

\* Witness of C4: after a rescan or a conversion, the row of a raw file that
\* is gone is still in the conversion file.
C4_Witness ==
    /\ op \in {"analyse", "exec", "exec_swallowed", "exec_raised"}
    /\ ~config.Overwrite_conversion
    /\ \E i \in DOMAIN ledger.rows :
         /\ Key(ledger.rows[i]) \notin raw
         /\ ledger.rows[i].status \in {"missing", "error"}

\* C5: every row the merge appends has status run or check, and a candidate
\* that carried processed or skip is appended with status run.
C5_AppendedRunOrCheck ==
    op = "merge" =>
      \A i \in (Len(mExisting) + 1)..Len(mResult) :
        /\ mResult[i].status \in {"run", "check"}
        /\ \A j \in DOMAIN mNew :
             (Key(mNew[j]) = Key(mResult[i])
                /\ mNew[j].status \in {"processed", "skip"})
             => mResult[i].status = "run"

\* Witness of C5: a candidate carrying processed was appended.
C5_Witness ==
    /\ op = "merge"
    /\ \E j \in DOMAIN mNew, i \in DOMAIN mResult :
         /\ mNew[j].status = "processed"
         /\ Key(mNew[j]) \notin Keys(mExisting)
         /\ Key(mResult[i]) = Key(mNew[j])
         /\ i > Len(mExisting)

\* C6: a rescan sets every row whose raw file is absent to missing, whatever
\* its status was and whether or not its derived output exists.
C6_MissingOverrides ==
    [][RescanStep =>
         \A i \in DOMAIN ledger.rows :
           Key(ledger.rows[i]) \notin raw
             => /\ i \in DOMAIN ledger'.rows
                /\ ledger'.rows[i].status = "missing"]_vars

\* Witness of C6: a rescan turned a skip or check row into missing.
C6_Witness ==
    /\ op = "analyse"
    /\ \E i \in DOMAIN ledger.rows :
         /\ ledger.rows[i].status = "missing"
         /\ Key(ledger.rows[i]) \notin raw
         /\ ledger.rows[i].status_history # <<>>
         /\ Last(ledger.rows[i].status_history) \in
              {<<"skip", "missing">>, <<"check", "missing">>}

\* C7: outside human edits (and with the table never regenerated), a skip or
\* check row keeps its status, or becomes missing while its raw file is absent.
C7_SkipCheckSticky ==
    [][(op' # "edit" /\ ~config.Overwrite_conversion) =>
         \A i \in DOMAIN ledger.rows :
           ledger.rows[i].status \in {"skip", "check"}
             => /\ i \in DOMAIN ledger'.rows
                /\ Key(ledger'.rows[i]) = Key(ledger.rows[i])
                /\ \/ ledger'.rows[i].status = ledger.rows[i].status
                   \/ /\ ledger'.rows[i].status = "missing"
                      /\ Key(ledger.rows[i]) \notin raw]_vars

\* C8 (as stated): a rescan sets every row whose raw file is present and
\* whose derived output exists to processed, whatever its status was.
C8_OutputMeansProcessed ==
    [][RescanStep =>
         \A i \in DOMAIN ledger.rows :
           (Key(ledger.rows[i]) \in raw
              /\ OutputOnDisk(ledger.rows[i].bids_name))
             => /\ i \in DOMAIN ledger'.rows
                /\ ledger'.rows[i].status = "processed"]_vars

\* C8 (amended): a rescan sets every row whose raw file is present, whose
\* derived output exists and whose status is neither skip nor check to
\* processed.
C8_OutputMeansProcessedUnlessSticky ==
    [][RescanStep =>
         \A i \in DOMAIN ledger.rows :
           (Key(ledger.rows[i]) \in raw
              /\ OutputOnDisk(ledger.rows[i].bids_name)
              /\ ledger.rows[i].status \notin {"skip", "check"})
             => /\ i \in DOMAIN ledger'.rows
                /\ ledger'.rows[i].status = "processed"]_vars

\* Witness of C8: a rescan turned an error or missing row into processed.
C8_Witness ==
    /\ op = "analyse"
    /\ \E i \in DOMAIN ledger.rows :
         /\ ledger.rows[i].status = "processed"
         /\ ledger.rows[i].status_history # <<>>
         /\ Last(ledger.rows[i].status_history) \in
              {<<"error", "processed">>, <<"missing", "processed">>}

C10_HistoryCountsChanges ==
    \A i \in DOMAIN ledger.rows :
      Len(ledger.rows[i].status_history) = ledger.rows[i].changes

\* A step of the executor's loop that wrote the table.
ExecStep == op' \in {"exec", "exec_swallowed", "exec_raised"}

\* C11: a successful conversion adds one to the attempt_count of the row it
\* converted and sets its last_processed; a failed conversion, a scan, a merge
\* and a reconciliation leave every attempt_count as it is (the table never
\* regenerated, human edits aside).
C11_AttemptCountBookkeeping ==
    [][(~config.Overwrite_conversion /\ op' # "edit") =>
         \A i \in DOMAIN ledger.rows :
           /\ i \in DOMAIN ledger'.rows
           /\ IF op' = "exec" /\ i = Head(todo)
              THEN /\ ledger'.rows[i].attempt_count
                        = ledger.rows[i].attempt_count + 1
                   /\ ledger'.rows[i].last_processed \notin {"", "None", "NaN"}
              ELSE ledger'.rows[i].attempt_count
                        = ledger.rows[i].attempt_count]_vars

\* C12: after an iteration of the executor's loop whose conversion failed
\* (an exception reached the handler, or the write of the derived file and its
\* fallback both failed), the row is error and its attempt_count is unchanged.
C12_FailureYieldsError ==
    [][op' \in {"exec_swallowed", "exec_raised"} =>
         LET i == Head(todo)
         IN /\ ledger'.rows[i].status = "error"
            /\ ledger'.rows[i].attempt_count = df[i].attempt_count]_vars

\* C15: when the executor's loop takes a row whose conversion raises, or whose
\* target cannot be resolved (raw file gone, or not resolvable), the row is
\* written to the conversion file as error and the loop goes on with the
\* remaining selected rows.
C15_FailingRowDoesNotAbort ==
    [][(pc = "run" /\ todo # <<>> /\ todo' # todo) =>
         LET i == Head(todo)
             f == Key(df[i])
         IN (op' = "exec_raised" \/ f \notin raw \/ f \notin config.Mapped)
              => /\ todo' = Tail(todo)
                 /\ i \in DOMAIN ledger'.rows
                 /\ ledger'.rows[i].status = "error"]_vars

\* The elements of a sequence.
Range(q) == {q[i] : i \in DOMAIN q}
\* A step that starts an execution pass on the existing conversion file.
BeginStep ==
    op' \in {"begin", "bidsify"} /\ ledger.exists /\ ~config.Overwrite_conversion

\* C14 (as stated): the next execution pass selects every error row whose raw
\* file exists.
C14_ErrorRowsRetried ==
    [][BeginStep =>
         \A i \in DOMAIN ledger.rows :
           (ledger.rows[i].status = "error" /\ Key(ledger.rows[i]) \in raw)
             => pc' = "run" /\ i \in Range(todo')]_vars

\* C14 (amended): the next execution pass selects every error row whose raw
\* file exists, unless the pass stops at a check row before its loop, or the
\* pass reconciles first and the row's derived output exists.
C14_ErrorRowsRetriedUnlessGated ==
    [][BeginStep =>
         \A i \in DOMAIN ledger.rows :
           (/\ ledger.rows[i].status = "error"
            /\ Key(ledger.rows[i]) \in raw
            /\ ~(op' = "bidsify" /\ OutputOnDisk(ledger.rows[i].bids_name)))
             => \/ pc' = "run" /\ i \in Range(todo')
                \/ /\ pc' = "idle"
                   /\ \E j \in DOMAIN ledger'.rows :
                        ledger'.rows[j].status = "check"]_vars

\* Witness of C14: a pass that started on the existing conversion file, with no
\* row forced in by the overwrite flag, selected an error row.
C14_Witness ==
    /\ op \in {"begin", "bidsify"}
    /\ pc = "run"
    /\ ~config.overwrite
    /\ \E i \in Range(todo) : df[i].status = "error" /\ Key(df[i]) \in raw

\* A step of the scan study.
Scanned == op' \in {"scan", "scan_forced"}
\* The existing table holds file f with one of the given statuses.
Recorded(f, statuses) ==
    \E i \in DOMAIN mExisting :
      Key(mExisting[i]) = f /\ mExisting[i].status \in statuses

\* C18: the scan leaves out a resolvable raw file only if the existing table
\* records it as processed or skip, its signature is the one of the previous
\* index, and its participant has a subject directory in the derived tree.
C18_ShortCircuitNarrow ==
    [][Scanned =>
         \A f \in raw \cap config.Mapped :
           f \notin Keys(mResult')
             => /\ Recorded(f, {"processed", "skip"})
                /\ index[f] = sig[f]
                /\ DerivedDir(f, config) \in bidsdir]_vars

\* C19: a candidate is run, unless its task is neither listed, nor a noise
\* task (Noise, NoiseBefore, NoiseAfter), nor a system-exception task: then
\* it is check.
C19_InitialStatus ==
    op = "status" =>
      sStatus = IF /\ sTask \notin sTasks
                   /\ sTask \notin {"Noise", "NoiseBefore", "NoiseAfter"}
                   /\ sTask \notin OPM_EXEPCIONS_PATTERNS
                THEN "check" ELSE "run"

\* C20: the candidate of a file whose signature is not the one of the previous
\* index, and which the existing table records as processed, is run.
C20_ChangedProcessedRequeued ==
    [][Scanned =>
         \A i \in DOMAIN mResult' :
           LET f == Key(mResult'[i])
           IN (index[f] # sig[f] /\ Recorded(f, {"processed"}))
                => mResult'[i].status = "run"]_vars

\* C13: whatever happens during an execution pass, the conversion file stays
\* a readable table: a step that completes a row writes every row as the
\* executor holds it, and a crash during that write loses at most the row in
\* flight, every other row staying on disk as it was.
C13_CrashSafePersistence ==
    [][(pc = "run" /\ todo # <<>> /\ todo' # todo) =>
         /\ ~corrupt'
         /\ ExecStep =>
              \A i \in DOMAIN df :
                i # Head(todo) => ledger'.rows[i] = ToCsvRow(df[i])
         /\ op' = "flush_crash" =>
              \A i \in DOMAIN ledger.rows :
                i # Head(todo) => /\ i \in DOMAIN ledger'.rows
                                  /\ ledger'.rows[i] = ledger.rows[i]]_vars

\* C16: an invocation that finds the conversion file zero-byte does not fail:
\* it regenerates the table by a full scan and leaves a readable conversion
\* file.
C16_UnreadableLedgerNotFatal ==
    [][(corrupt /\ pc = "idle"
          /\ op' \in {"analyse", "begin", "bidsify", "load_crash"}) =>
         /\ op' # "load_crash"
         /\ ~corrupt'
         /\ Keys(ledger'.rows) = raw \cap config.Mapped]_vars

\* C17: load_conversion_table returns the configured conversion file and the
\* table that file holds, and the flush that follows writes that file and
\* leaves the signature index alone.
C17_LedgerAtConfiguredPath ==
    [][/\ op' = "load" =>
            /\ lFile' = "conversion"
            /\ ledger'.exists
            /\ mResult' = ReadCsv(ledger'.rows)
       /\ op' = "flush" =>
            /\ ledger' = [exists |-> TRUE, rows |-> ToCsv(mResult)]
            /\ index' = index]_vars

\* C27: the executor's loop only takes a row whose status, as the pass holds
\* it, is run or error; a processed, skip or missing row is never attempted.
C27_OnlyRunOrErrorAttempted ==
    [][(pc = "run" /\ todo # <<>> /\ todo' # todo)
         => df[Head(todo)].status \in {"run", "error"}]_vars

\* C28: reconciliation of an existing table adds no row, removes no row, keeps
\* the order, and changes nothing of a row but its status and status_history.
C28_RefreshChangesStatusOnly ==
    [][RescanStep =>
         /\ Len(ledger'.rows) >= Len(ledger.rows)
         /\ \A i \in DOMAIN ledger.rows :
              ledger'.rows[i] =
                [ledger.rows[i] EXCEPT
                   !.status = ledger'.rows[i].status,
                   !.status_history = ledger'.rows[i].status_history,
                   !.changes = ledger'.rows[i].changes]]_vars

\* Witness of C28: reconciliation reverted a converted row to run, and the row
\* still carries its attempt and its target.
C28_Witness ==
    /\ op = "analyse"
    /\ ~config.Overwrite_conversion
    /\ \E i \in DOMAIN ledger.rows :
         /\ ledger.rows[i].status = "run"
         /\ ledger.rows[i].attempt_count = 1
         /\ ledger.rows[i].last_processed = "ts"
         /\ ledger.rows[i].status_history # <<>>
         /\ Last(ledger.rows[i].status_history) = <<"processed", "run">>

\* The scan step just taken found file f unchanged: it was not forced, and the
\* index file held an entry for f with f's current signature.
FoundUnchanged(f) ==
    op' = "scan" /\ iKind = "table" /\ index[f] = sig[f]

\* C21: whatever the order in which the workers complete, the scan emits the
\* same sequence: the candidates in strictly increasing order of their sort
\* key, which is the sequence generate_new_conversion_table stands for.
C21_ScanOrderIndependent ==
    [][Scanned =>
         /\ \A i, j \in DOMAIN mResult' :
              i < j => SortKey(mResult'[i]) < SortKey(mResult'[j])
         /\ mResult' = generate_new_conversion_table(
                          Invocation(config, op' = "scan_forced"), mExisting,
                          index, op' = "scan_forced").results]_vars

\* Witness of C21: a scan whose pool returned a result for every file, in one
\* completion order or another.
C21_Witness ==
    /\ op \in {"scan", "scan_forced"}
    /\ Len(mResult) = NumFiles
    /\ Len(mResult) >= 2

\* C22: a file that cannot be resolved yields no candidate, and every other
\* enumerated file yields what it yields on its own: nothing when it is
\* short-circuited, else its candidate with the status of its task.
C22_ScanFailuresIsolated ==
    [][Scanned =>
         /\ \A f \in raw \ config.Mapped : f \notin Keys(mResult')
         /\ \A g \in raw \cap config.Mapped :
              IF /\ Recorded(g, {"processed", "skip"})
                 /\ FoundUnchanged(g)
                 /\ ParticipantOf(g) \in bidsdir
              THEN g \notin Keys(mResult')
              ELSE \E i \in DOMAIN mResult' :
                     mResult'[i] =
                       NewRow(g, IF g \in config.Tasks THEN "run" ELSE "check")]_vars

\* Witness of C22: a scan met a file it could not resolve and returned the
\* candidate of another file.
C22_Witness ==
    /\ op \in {"scan", "scan_forced"}
    /\ raw \ config.Mapped # {}
    /\ mResult # <<>>

\* C23: after a scan the index holds exactly the signatures of the files the
\* scan enumerated, also when it enumerated none: an entry of a file no longer
\* seen is gone.
C23_IndexRebuilt ==
    [][Scanned =>
         index' = [f \in Files |-> IF f \in raw THEN sig[f] ELSE 0]]_vars

\* C24: reading the index file never raises, and a file that is not a table
\* of entries reads as the empty map: every resolvable file gets a candidate.
C24_LoadIndexNeverRaises ==
    [][/\ op' # "scan_raised"
       /\ (op' = "scan" /\ iKind # "table")
            => Keys(mResult') = raw \cap config.Mapped]_vars

\* C25: a file the scan could short-circuit (recorded as processed or skip,
\* its participant present in the derived tree) is treated as changed, and so
\* gets a candidate, exactly when the scan is forced, or the previous index
\* has no entry for it, or the entry is not its current signature.
C25_ChangeDetection ==
    [][Scanned =>
         \A f \in raw \cap config.Mapped :
           (Recorded(f, {"processed", "skip"}) /\ ParticipantOf(f) \in bidsdir)
             => (f \in Keys(mResult')
                   <=> \/ op' = "scan_forced"
                       \/ iKind # "table"
                       \/ index[f] = 0
                       \/ index[f] # sig[f])]_vars

\* Witness of C25: an unforced scan returned a candidate for a file recorded
\* as processed whose participant is in the derived tree: it found the file
\* changed.
C25_Witness ==
    /\ op = "scan"
    /\ \E f \in Keys(mResult) :
         Recorded(f, {"processed"}) /\ ParticipantOf(f) \in bidsdir

\* C26: with a mapping table, a file whose participant is not in the table, or
\* whose session the table does not list for that participant, gets no target
\* identifiers at all.
C26_RemappingFailsClosed ==
    (op = "resolve" /\ rPmap.loaded
       /\ ~\E i \in DOMAIN rPmap.rows :
             /\ rPmap.rows[i].old_subj = rSubject
             /\ rPmap.rows[i].old_session = rSession)
      => rResult = [ok |-> FALSE]

\* Witness of C26: the table has the participant, and has the session for
\* another participant only; nothing was resolved.
C26_Witness ==
    /\ op = "resolve"
    /\ rPmap.loaded
    /\ \E i \in DOMAIN rPmap.rows : rPmap.rows[i].old_subj = rSubject
    /\ \E i \in DOMAIN rPmap.rows :
         rPmap.rows[i].old_session = rSession /\ rPmap.rows[i].old_subj # rSubject
    /\ ~\E i \in DOMAIN rPmap.rows :
          rPmap.rows[i].old_subj = rSubject /\ rPmap.rows[i].old_session = rSession
    /\ rResult = [ok |-> FALSE]

\* NatMEG_001_Phalanges_tsss_mc_meg.fif.
ReferenceName ==
    [prefix |-> NatMEG,
     id |-> <<Digit("0"), Digit("0"), Digit("1")>>,
     task |-> <<<<A("phalanges", "Title")>>>>,
     proc |-> <<"tsss", "mc">>,
     datatype |-> "meg",
     split |-> <<>>]

\* The words of the task tokens of a name.
TaskWords(n) ==
    UNION {{n.task[i][k].w : k \in DOMAIN n.task[i]} : i \in DOMAIN n.task}

\* C29: the reference name parses to participant 001, task Phalanges,
\* processing tsss then mc, datatypes {meg} and no split; and the task parsed
\* from a name with one task token (not a noise recording) is that token.
C29_TaskIsUnclassifiedToken ==
    op = "parse" =>
      /\ pName = ReferenceName =>
           pResult = [raised |-> FALSE,
                      participant |-> <<Digit("0"), Digit("0"), Digit("1")>>,
                      task |-> <<A("phalanges", "Title")>>,
                      split |-> <<>>,
                      processing |-> <<A("tsss", "lower"), A("mc", "lower")>>,
                      datatypes |-> {"meg"}]
      /\ (Len(pName.task) = 1 /\ TaskWords(pName) \cap {"noise", "empty"} = {}) =>
           /\ ~pResult.raised
           /\ pResult.task = pName.task[1]

\* The derived task of a name: the task before the noise rule.
DerivedTask(n) == camel_case(task_tokens(Basename(n)))

\* The task holds a keyword of NOISE_PATTERNS.
HoldsNoise(task) == \E k \in DOMAIN task : task[k] \in NOISE_PATTERNS

\* The task holds the word, in any case.
Holds(task, word) ==
    \E k \in DOMAIN task : task[k].c # "none" /\ task[k].w = word

PassTables(o) ==
    IF o = "begin"
    THEN {load_conversion_table(ledger, index, Invocation(config, FALSE), FALSE).table}
    ELSE {update_conversion_table(ledger, index, Invocation(config, fs)).table :
            fs \in BOOLEAN}
HasCheck(table) == \E i \in DOMAIN table : table[i].status = "check"

\* C33: when the table bidsify reaches its execution pass with holds a check
\* row, the invocation converts nothing and starts no loop, and the ledger
\* file afterwards holds that table as it is: every row with the status, the
\* target and the attempt bookkeeping it had.
C33_CheckGate ==
    [][(op' \in {"begin", "bidsify"} /\ \A t \in PassTables(op') : HasCheck(t))
         => /\ pc' = "idle"
            /\ todo' = <<>>
            /\ out' = out
            /\ ledger'.exists
            /\ \E t \in PassTables(op') : ledger'.rows = ToCsv(t)
            /\ (op' = "begin" /\ ledger.exists /\ ~config.Overwrite_conversion)
                 => ledger'.rows = ledger.rows]_vars

\* Witness of C33: an invocation stopped at a check row although the ledger
\* also holds a row waiting to be converted.
C33_Witness ==
    /\ op \in {"begin", "bidsify"}
    /\ pc = "idle"
    /\ HasCheck(ledger.rows)
    /\ \E i \in DOMAIN ledger.rows :
         ledger.rows[i].status = "run" /\ Key(ledger.rows[i]) \in raw

\* A step of the program itself: not a change of the environment.
ProgramStep ==
    op' \in {"analyse", "begin", "bidsify", "exec", "exec_swallowed",
             "exec_raised", "crash"}
\* The conversion file records file f as missing, f is in the raw tree again,
\* and the row's target has no derived output.
ReturnedWithoutOutput(f) ==
    /\ f \in raw
    /\ \E i \in DOMAIN ledger.rows :
         /\ Key(ledger.rows[i]) = f
         /\ ledger.rows[i].status = "missing"
         /\ ~OutputOnDisk(ledger.rows[i].bids_name)
         /\ ~OutputOnDisk(f)

\* C34: a row with status missing whose raw file is present again and whose
\* target has no derived output stays missing under every step of the program:
\* it is not returned to run, not selected by an execution pass and not
\* converted.
C34_MissingLeftOnlyThroughOutput ==
    [][\A f \in Files :
         (ReturnedWithoutOutput(f) /\ ProgramStep) =>
           /\ \E j \in DOMAIN ledger'.rows :
                Key(ledger'.rows[j]) = f /\ ledger'.rows[j].status = "missing"
           /\ pc' = "run" => \A j \in Range(todo') : Key(df'[j]) # f
           /\ ~OutputOnDisk(f)']_vars

\* Two participants of the mapping table have the same original session and
\* different new sessions.
SharedSession(pmap) ==
    \E i, j \in DOMAIN pmap.rows :
      /\ pmap.rows[i].old_subj # pmap.rows[j].old_subj
      /\ pmap.rows[i].old_session = pmap.rows[j].old_session
      /\ pmap.rows[i].new_session # pmap.rows[j].new_session

\* C36: with a mapping table in which two participants share an original
\* session and have different new sessions, the session resolved for a file
\* is the new session of a table row that matches both the file's participant
\* and its session.
C36_SessionOfParticipant ==
    (op = "resolve" /\ rPmap.loaded /\ SharedSession(rPmap) /\ rResult.ok)
      => \E i \in DOMAIN rPmap.rows :
           /\ rPmap.rows[i].old_subj = rSubject
           /\ rPmap.rows[i].old_session = rSession
           /\ rResult.session = zfill(rPmap.rows[i].new_session, 2)

\* The table update_conversion_table returns on the present filesystem and
\* conversion file, with signature index idx and the given force_scan.
UpdatedTable(idx, force_scan) ==
    update_conversion_table(ledger, idx, Invocation(config, force_scan)).table
\* The candidates the scan inside update_conversion_table produces.
UpdateCandidates(idx, force_scan) ==
    LET cfg == Invocation(config, force_scan)
        ld == load_conversion_table(ledger, idx, cfg, TRUE)
    IN scan_candidates(cfg, ld.table, ld.index, force_scan)

\* C37: on the same filesystem and the same conversion file,
\* update_conversion_table returns the same table (the same rows, with the
\* same statuses) for every content of the signature index (no entry, the
\* current signature or a stale signature for each file) and for both values
\* of force_scan.
C37_IndexDoesNotInfluenceLedger ==
    (pc = "idle" /\ ~LoadFails(config))
      => LET forced == UpdatedTable(EmptyIndex, TRUE)
         IN \A idx \in IndexFiles, force_scan \in BOOLEAN :
              UpdatedTable(idx, force_scan) = forced

\* Witness of C37: on an existing conversion file, the index and force_scan
\* decide whether an already-tracked file is parsed again.
C37_Witness ==
    /\ pc = "idle"
    /\ ledger.exists
    /\ ~corrupt
    /\ ~config.Overwrite_conversion
    /\ UpdateCandidates(index, FALSE) # UpdateCandidates(index, TRUE)
    /\ \E idx \in IndexFiles :
         UpdateCandidates(idx, FALSE) # UpdateCandidates(index, FALSE)

\* C35: every row of an execution pass is written to a target whose subject
\* is the row's own participant_to, zero-padded.
C35_OwnSubject ==
    op = "convert"
      => \A i \in DOMAIN xTable :
           xSubjects[i] = pad_subject(xTable[i].participant_to)

\* The entries of a report table with the given pair.
EntriesOf(table, pair) == SelectSeq(table, LAMBDA e : e.pair = pair)
\* The report table holds, for every pair of the original table, exactly one
\* entry, which is an entry of that pair in the original table with the
\* greatest timestamp of the pair, and holds nothing else.
NewestPerPair(table, original) ==
    /\ \A pair \in ReportPairs :
         LET before == EntriesOf(original, pair)
             after == EntriesOf(table, pair)
         IN IF before = <<>> THEN after = <<>>
            ELSE /\ Len(after) = 1
                 /\ \E i \in DOMAIN before : before[i] = after[1]
                 /\ \A i \in DOMAIN before :
                      before[i].timestamp <= after[1].timestamp

\* C31: after consolidate_bids_report the report table holds exactly one
\* entry for every (Source File, BIDS File) pair that occurred in it, an entry
\* of that pair with the pair's greatest timestamp, left as it was; and a
\* second consolidation changes nothing.
C31_NewestEntryPerPair ==
    [][/\ op' = "consolidate" => NewestPerPair(bReport'.table, bOriginal.table)
       /\ op' = "consolidate_again" => bReport' = bReport]_vars

C38_JobsTerminate ==
    (jStatus = "running") ~> (jStatus \in {"completed", "failed", "aborted"})

\* C39: the subscriber receives no message twice; a subscriber whose handler
\* has ended received __JOB_DONE__ last; and when the job's task has ended as
\* well, the subscriber received the lines of logs, in their order, and then
\* __JOB_DONE__.
C39_EachLineOnceThenDone ==
    /\ \A i, j \in DOMAIN wReceived : i # j => wReceived[i] # wReceived[j]
    /\ wPc = "closed" => wReceived[Len(wReceived)] = "done"
    /\ (wPc = "closed" /\ tPc = "done") => wReceived = Append(jLogs, "done")

====
